---- MODULE Spec2Model ----
(***************************************************************************)
(* A model of pkg/cache of achuala/go-svc-extn: the cache facade           *)
(* (NewCache), the local engine (LocalCacheRistretto over a ristretto      *)
(* store), the remote engine (RemoteCacheValkey over one process-wide      *)
(* valkey client) and the three serializers (DefaultSerDe, JSONSerDe,      *)
(* ProtoSerDe).                                                            *)
(*                                                                         *)
(* Time is discrete: one tick is 1/TicksPerSec of a second, a duration is  *)
(* a number of ticks, and a deadline is an absolute tick.  Byte strings    *)
(* are sequences of one-character strings.                                 *)
(***************************************************************************)
EXTENDS Integers, Sequences, FiniteSets, TLC

VARIABLES
    now,        \* the clock, in ticks
    cfg,        \* the CacheConfig of the engine instance under test
    srv,        \* the valkey server: composite key -> entry
    loc,        \* the ristretto store of the local engine: key -> item
    pend,       \* ristretto's setBuf: items Set has queued, not yet applied
    lastOp,     \* the last cache operation and what it returned
    hist,       \* per key: the last write the caller made (history variable)
    pc,         \* per caller: where it stands in the operation it runs
    own,        \* per caller: the lock context it was handed
    rlock,      \* the valkeylock locker: lock name -> the caller holding it
    onceDone,   \* vkClientOnce has run
    vkClient,   \* the process-wide client handle
    vkClientErr,\* the error the once-only initializer stored
    created,    \* how many client handles valkey.NewClient built
    inst,       \* per NewCache call site: what the call returned
    sd,         \* the serializer run: input, bytes, output
    ret,        \* per caller: the number its counter call returned
    lockCtx     \* per caller: the context its lock call returned is not done

vars == <<now, cfg, srv, loc, pend, lastOp, hist, pc, own, rlock,
          onceDone, vkClient, vkClientErr, created, inst, sd, ret, lockCtx>>

-----------------------------------------------------------------------------
(* Bounds of the model.                                                    *)

\* ticks per second: the resolution of the clock
TicksPerSec == 2
\* the clock stops advancing here
MaxTime == 4
\* the longest TTL a caller passes, in ticks
MaxTTL == 3
\* capacity of the modelled setBuf (ristretto drops a new item when it is full)
MaxPend == 1
\* callers that increment concurrently
NCallers == 3
\* largest magnitude of an integer value handed to a serializer
MaxInt == 12
\* NewCache calls in one run of the constructor model
MaxCalls == 2
\* times one release function is called
MaxRel == 2
\* longest key list handed to DeleteMulti
MaxKeys == 2

\* how far from zero the sum of a sequence of counter calls may get
MaxSum == 3

-----------------------------------------------------------------------------
(* Byte strings and the strconv / fmt conversions the serializers use.     *)

Digits == <<"0", "1", "2", "3", "4", "5", "6", "7", "8", "9">>

IsDigit(c) == \E i \in 1..Len(Digits) : Digits[i] = c

DigitVal(c) == (CHOOSE i \in 1..Len(Digits) : Digits[i] = c) - 1

RECURSIVE FormatNat(_)
FormatNat(n) ==
    IF n < 10 THEN <<Digits[n + 1]>>
    ELSE FormatNat(n \div 10) \o <<Digits[(n % 10) + 1]>>

\* fmt.Sprintf("%v", v) of an integer
FormatInt(n) == IF n < 0 THEN <<"-">> \o FormatNat(0 - n) ELSE FormatNat(n)

AllDigits(s) == Len(s) > 0 /\ \A i \in 1..Len(s) : IsDigit(s[i])

RECURSIVE NatOf(_)
NatOf(s) ==
    IF Len(s) = 0 THEN 0
    ELSE 10 * NatOf(SubSeq(s, 1, Len(s) - 1)) + DigitVal(s[Len(s)])

\* strconv.ParseUint(s, 10, 64): digits only
ParseUint(s) ==
    IF AllDigits(s) THEN [ok |-> TRUE, n |-> NatOf(s)] ELSE [ok |-> FALSE, n |-> 0]

\* strconv.ParseInt(s, 10, 64): an optional sign, then digits
ParseInt(s) ==
    IF Len(s) > 0 /\ s[1] \in {"-", "+"}
    THEN LET u == ParseUint(Tail(s))
         IN  [ok |-> u.ok, n |-> IF s[1] = "-" THEN 0 - u.n ELSE u.n]
    ELSE ParseUint(s)

\* A float is modelled by its number of halves: h stands for h/2.
\* fmt.Sprintf("%v", f): the shortest decimal, "1.5", "-2", "0.5"
FormatFloat(h) ==
    LET a == IF h < 0 THEN 0 - h ELSE h
        body == FormatNat(a \div 2) \o (IF a % 2 = 1 THEN <<".", "5">> ELSE <<>>)
    IN  IF h < 0 THEN <<"-">> \o body ELSE body

\* strconv.ParseFloat(s, 64) on the decimals above
ParseFloat(s) ==
    LET neg  == Len(s) > 0 /\ s[1] = "-"
        t    == IF neg THEN Tail(s) ELSE s
        frac == Len(t) >= 3 /\ SubSeq(t, Len(t) - 1, Len(t)) = <<".", "5">>
        ip   == IF frac THEN SubSeq(t, 1, Len(t) - 2) ELSE t
        u    == ParseUint(ip)
        a    == 2 * u.n + (IF frac THEN 1 ELSE 0)
    IN  [ok |-> u.ok, n |-> IF neg THEN 0 - a ELSE a]

TrueText == <<"t", "r", "u", "e">>
FalseText == <<"f", "a", "l", "s", "e">>

\* strconv.ParseBool
ParseBool(s) ==
    IF s \in {<<"1">>, <<"t">>, <<"T">>, TrueText, <<"T", "R", "U", "E">>,
              <<"T", "r", "u", "e">>}
    THEN [ok |-> TRUE, b |-> TRUE]
    ELSE IF s \in {<<"0">>, <<"f">>, <<"F">>, FalseText,
                   <<"F", "A", "L", "S", "E">>, <<"F", "a", "l", "s", "e">>}
    THEN [ok |-> TRUE, b |-> FALSE]
    ELSE [ok |-> FALSE, b |-> FALSE]

-----------------------------------------------------------------------------
(* The serializers.  A value of the cache's type T is a record: T is the   *)
(* static type the cache was instantiated with, dyn the dynamic type of    *)
(* the value (T itself unless T is the interface type any), v the payload. *)

IntKinds == {"int", "int8", "int16", "int32", "int64"}
UintKinds == {"uint", "uint8", "uint16", "uint32", "uint64"}
FloatKinds == {"float32", "float64"}

Value(T, dyn, v) == [T |-> T, dyn |-> dyn, v |-> v]

\* what Serialize returns: ([]byte, error)
Bytes(data) == [err |-> FALSE, data |-> data]

\* what Deserialize returns: (T, error), or the goroutine panics
Ok(val) == [outcome |-> "ok", val |-> val]
Failed == [outcome |-> "err", val |-> <<>>]
Panics == [outcome |-> "panic", val |-> <<>>]

Quote == "\""
Backslash == "\\"

RECURSIVE EscapeJSON(_)
EscapeJSON(s) ==
    IF Len(s) = 0 THEN <<>>
    ELSE (IF Head(s) \in {Quote, Backslash} THEN <<Backslash, Head(s)>> ELSE <<Head(s)>>)
         \o EscapeJSON(Tail(s))

RECURSIVE UnescapeJSON(_)
UnescapeJSON(s) ==
    IF Len(s) = 0 THEN <<>>
    ELSE IF Head(s) = Backslash /\ Len(s) >= 2
         THEN <<s[2]>> \o UnescapeJSON(SubSeq(s, 3, Len(s)))
         ELSE <<Head(s)>> \o UnescapeJSON(Tail(s))

StructOpen == <<"{", Quote, "F", Quote, ":">>

\* json.Marshal(value)
JSONMarshal(val) ==
    CASE val.dyn = "string" -> Bytes(<<Quote>> \o EscapeJSON(val.v) \o <<Quote>>)
      [] val.dyn \in IntKinds \cup UintKinds -> Bytes(FormatInt(val.v))
      [] val.dyn \in FloatKinds -> Bytes(FormatFloat(val.v))
      [] val.dyn = "bool" -> Bytes(IF val.v THEN TrueText ELSE FalseText)
      [] OTHER -> Bytes(StructOpen \o FormatInt(val.v) \o <<"}">>)

\* json.Unmarshal(data, &value) for value of static type T
JSONUnmarshal(T, data) ==
    LET quoted == Len(data) >= 2 /\ data[1] = Quote /\ data[Len(data)] = Quote
        inner  == UnescapeJSON(SubSeq(data, 2, Len(data) - 1))
        num    == ParseInt(data)
        flt    == ParseFloat(data)
        isobj  == Len(data) > Len(StructOpen) + 1
                  /\ SubSeq(data, 1, Len(StructOpen)) = StructOpen
                  /\ data[Len(data)] = "}"
        fld    == ParseInt(SubSeq(data, Len(StructOpen) + 1, Len(data) - 1))
    IN  CASE T = "string" -> IF quoted THEN Ok(Value(T, T, inner)) ELSE Failed
          [] T \in IntKinds ->
                IF num.ok /\ data[1] # "+" THEN Ok(Value(T, T, num.n)) ELSE Failed
          [] T \in UintKinds ->
                IF num.ok /\ num.n >= 0 /\ data[1] # "+"
                THEN Ok(Value(T, T, num.n)) ELSE Failed
          [] T \in FloatKinds -> IF flt.ok THEN Ok(Value(T, T, flt.n)) ELSE Failed
          [] T = "bool" ->
                IF data \in {TrueText, FalseText}
                THEN Ok(Value(T, T, data = TrueText)) ELSE Failed
          [] T = "any" ->
                \* into an interface: a string stays a string, a number
                \* becomes a float64
                IF quoted THEN Ok(Value(T, "string", inner))
                ELSE IF flt.ok THEN Ok(Value(T, "float64", flt.n))
                ELSE IF data \in {TrueText, FalseText}
                     THEN Ok(Value(T, "bool", data = TrueText))
                ELSE Failed
          [] OTHER -> IF isobj /\ fld.ok THEN Ok(Value(T, T, fld.n)) ELSE Failed

\* DefaultSerDe.Serialize: the type switch is on the dynamic type
DefaultSerialize(val) ==
    CASE val.dyn = "string" -> Bytes(val.v)
      [] val.dyn \in IntKinds \cup UintKinds -> Bytes(FormatInt(val.v))
      [] val.dyn \in FloatKinds -> Bytes(FormatFloat(val.v))
      [] val.dyn = "bool" -> Bytes(IF val.v THEN TrueText ELSE FalseText)
      [] OTHER -> JSONMarshal(val)

\* any(val).(T) on the int64 / uint64 / float64 the strconv parser returned:
\* the assertion holds only when T is that very type
AssertType(T, parsed, n) == IF T = parsed THEN Ok(Value(T, T, n)) ELSE Panics

\* DefaultSerDe.Deserialize: the switch is on reflect.TypeOf(zero).Kind()
DefaultDeserialize(T, data) ==
    CASE T = "any" -> Panics    \* reflect.TypeOf(nil) is nil: Kind() on it panics
      [] T = "string" -> Ok(Value(T, T, data))
      [] T \in IntKinds ->
            IF ParseInt(data).ok THEN AssertType(T, "int64", ParseInt(data).n)
            ELSE JSONUnmarshal(T, data)
      [] T \in UintKinds ->
            IF ParseUint(data).ok THEN AssertType(T, "uint64", ParseUint(data).n)
            ELSE JSONUnmarshal(T, data)
      [] T \in FloatKinds ->
            IF ParseFloat(data).ok THEN AssertType(T, "float64", ParseFloat(data).n)
            ELSE JSONUnmarshal(T, data)
      [] T = "bool" ->
            IF ParseBool(data).ok THEN Ok(Value(T, T, ParseBool(data).b))
            ELSE JSONUnmarshal(T, data)
      [] OTHER -> JSONUnmarshal(T, data)

\* the switch of DefaultSerDe.Deserialize falls through to the last line
FallsBack(T, data) ==
    CASE T \in {"any", "string"} -> FALSE
      [] T \in IntKinds -> ~ParseInt(data).ok
      [] T \in UintKinds -> ~ParseUint(data).ok
      [] T \in FloatKinds -> ~ParseFloat(data).ok
      [] T = "bool" -> ~ParseBool(data).ok
      [] OTHER -> TRUE

\* "var zero T"
Zero(T) ==
    Value(T, T, CASE T = "string" -> <<>> [] T = "bool" -> FALSE [] OTHER -> 0)

\* "return zero, json.Unmarshal(data, &zero)": Go does not say whether zero
\* is read before or after the call that fills it, so a successful fallback
\* returns the decoded value or the zero value
DefaultDeserializeOutcomes(T, data) ==
    IF FallsBack(T, data) /\ DefaultDeserialize(T, data).outcome = "ok"
    THEN {DefaultDeserialize(T, data), Ok(Zero(T))}
    ELSE {DefaultDeserialize(T, data)}

\* ProtoSerDe.Serialize: proto.Marshal of a message with one integer field
\* (the zero value is not put on the wire)
ProtoSerialize(val) ==
    Bytes(IF val.v = 0 THEN <<>> ELSE <<"#">> \o FormatInt(val.v))

\* ProtoSerDe.Deserialize: "var value T" is a nil message, and
\* proto.Unmarshal resets the message it is handed before it decodes
ProtoDeserialize(T, data) == Panics

Serialize(serde, val) ==
    CASE serde = "json" -> JSONMarshal(val)
      [] serde = "proto" -> ProtoSerialize(val)
      [] OTHER -> DefaultSerialize(val)

Deserialize(serde, T, data) ==
    CASE serde = "json" -> JSONUnmarshal(T, data)
      [] serde = "proto" -> ProtoDeserialize(T, data)
      [] OTHER -> DefaultDeserialize(T, data)

\* everything a Deserialize call can return
DeserializeOutcomes(serde, T, data) ==
    IF serde = "default" THEN DefaultDeserializeOutcomes(T, data)
    ELSE {Deserialize(serde, T, data)}

\* the strings a cache of strings holds in the model
Strs == {<<>>, <<"a">>, <<"7">>, <<"t">>, <<Quote>>}

Ints == {0 - MaxInt, 0 - 1, 0, 7, MaxInt}

\* every value the serializer runs are fed
SerDeValues ==
    {Value("string", "string", s) : s \in Strs}
    \cup {Value(T, T, n) : T \in IntKinds, n \in Ints}
    \cup {Value(T, T, n) : T \in UintKinds, n \in {n \in Ints : n >= 0}}
    \cup {Value(T, T, h) : T \in FloatKinds, h \in {0 - 5, 0, 3, 4}}
    \cup {Value("bool", "bool", b) : b \in BOOLEAN}
    \cup {Value("struct", "struct", n) : n \in Ints}
    \cup {Value("message", "message", n) : n \in Ints}
    \cup {Value("any", "string", s) : s \in Strs}
    \cup {Value("any", "int64", n) : n \in Ints}

SerDeInputs ==
    {[serde |-> sx, val |-> v] :
        sx \in {"default", "json"}, v \in SerDeValues}
    \cup {[serde |-> "proto", val |-> v] :
            v \in {w \in SerDeValues : w.T = "message"}}

SdIdle == [stage |-> "idle"]

-----------------------------------------------------------------------------
(* Keys, durations and configurations.                                     *)

\* the user keys and hash fields the callers use
Keys == {<<"k">>, <<"j">>, <<"h">>}
Fields == {<<"a">>, <<"b">>}
\* the cache names (CacheConfig.CacheName)
Names == {<<"n">>}

\* a composite key that leaves the cache name out
makeKeyOneName(c, key) == <<"n">> \o <<":">> \o key

\* RemoteCacheValkey.makeKey: name + ":" + key
makeKey(c, key) == c.name \o <<":">> \o key

\* the name of a second cache in the same process
OtherName == <<"m">>

CKeys == {n \o <<":">> \o k : n \in Names \cup {OtherName}, k \in Keys}

\* an entry or field without expiration carries deadline NoExp
NoExp == 0

\* int64(ttl.Seconds()) and valkey-go's Ex(ttl): whole seconds, truncated
Seconds(ttl) == ttl \div TicksPerSec

\* the deadline of something written now with a TTL of secs whole seconds
DeadlineSecs(secs) == now + secs * TicksPerSec

\* the TTLs the callers pass, in ticks (sub-second and fractional ones too)
TTLs == 1..MaxTTL

\* the DefaultTTL values of the configurations under test, in ticks
DefaultTTLs == {0, MaxTTL - 1, MaxTTL}

Config(id, mode, name, ttl, touch) ==
    [id |-> id, mode |-> mode, name |-> name, ttl |-> ttl, touch |-> touch,
     serde |-> "default", T |-> "string"]

\* the configurations of a cache of strings
Configs ==
    {Config(1, m, n, d, t) :
        m \in {"local", "remote"}, n \in Names, d \in DefaultTTLs, t \in BOOLEAN}

\* the value of the cache's type T the caller hands in
Val(c, v) == Value(c.T, c.T, v)

-----------------------------------------------------------------------------
(* The valkey server, as far as the commands the remote engine sends.      *)
(* A command is an operator from the server state to a reply and the next  *)
(* state; a reply is an error, nil, or a value.                            *)

NoEntry == [kind |-> "none", val |-> <<>>, exp |-> NoExp]
StrEntry(v, e) == [kind |-> "str", val |-> v, exp |-> e]
NoField == [has |-> FALSE, val |-> <<>>, exp |-> NoExp]
Field(v, e) == [has |-> TRUE, val |-> v, exp |-> e]
NoFields == [f \in Fields |-> NoField]
HashEntry(fs, e) ==
    IF \A f \in Fields : ~fs[f].has THEN NoEntry
    ELSE [kind |-> "hash", val |-> fs, exp |-> e]

EmptySrv == [ck \in CKeys |-> NoEntry]

Reply(err, nil, val, s) == [err |-> err, nil |-> nil, val |-> val, s |-> s]

Due(e, t) == e # NoExp /\ e <= t

\* what is left of the store at time t: expired keys and fields are gone
Purge(s, t) ==
    [ck \in DOMAIN s |->
        IF Due(s[ck].exp, t) THEN NoEntry
        ELSE IF s[ck].kind = "hash"
        THEN HashEntry([f \in Fields |->
                          IF Due(s[ck].val[f].exp, t) THEN NoField ELSE s[ck].val[f]],
                       s[ck].exp)
        ELSE s[ck]]

\* GET key
SrvGet(s, ck) ==
    CASE s[ck].kind = "none" -> Reply(FALSE, TRUE, <<>>, s)
      [] s[ck].kind = "str" -> Reply(FALSE, FALSE, s[ck].val, s)
      [] OTHER -> Reply(TRUE, FALSE, <<>>, s)

\* GETEX key EX secs
SrvGetex(s, ck, secs) ==
    CASE secs <= 0 -> Reply(TRUE, FALSE, <<>>, s)
      [] s[ck].kind = "none" -> Reply(FALSE, TRUE, <<>>, s)
      [] s[ck].kind = "str" ->
            Reply(FALSE, FALSE, s[ck].val,
                  [s EXCEPT ![ck].exp = DeadlineSecs(secs)])
      [] OTHER -> Reply(TRUE, FALSE, <<>>, s)

\* SET key value
SrvSet(s, ck, v) == Reply(FALSE, FALSE, <<>>, [s EXCEPT ![ck] = StrEntry(v, NoExp)])

\* SET key value EX secs
SrvSetEx(s, ck, v, secs) ==
    IF secs <= 0 THEN Reply(TRUE, FALSE, <<>>, s)
    ELSE Reply(FALSE, FALSE, <<>>,
               [s EXCEPT ![ck] = StrEntry(v, DeadlineSecs(secs))])

\* EXPIRE key secs
SrvExpire(s, ck, secs) ==
    CASE s[ck].kind = "none" -> Reply(FALSE, FALSE, 0, s)
      [] secs <= 0 -> Reply(FALSE, FALSE, 1, [s EXCEPT ![ck] = NoEntry])
      [] OTHER -> Reply(FALSE, FALSE, 1, [s EXCEPT ![ck].exp = DeadlineSecs(secs)])

\* DEL answering with the number of keys it was given
SrvDelCountsListed(s, cks) ==
    Reply(FALSE, FALSE, Cardinality(cks),
          [ck \in DOMAIN s |-> IF ck \in cks THEN NoEntry ELSE s[ck]])

\* DEL key [key ...]: the number of keys that were removed
SrvDel(s, cks) ==
    Reply(FALSE, FALSE,
          Cardinality({ck \in cks : s[ck].kind # "none"}),
          [ck \in DOMAIN s |-> IF ck \in cks THEN NoEntry ELSE s[ck]])

\* INCRBY that stores delta over the old value
SrvIncrbyOverwrites(s, ck, delta) ==
    Reply(FALSE, FALSE, delta, [s EXCEPT ![ck] = StrEntry(FormatInt(delta), NoExp)])

\* INCRBY key delta
SrvIncrby(s, ck, delta) ==
    CASE s[ck].kind = "none" ->
            Reply(FALSE, FALSE, delta,
                  [s EXCEPT ![ck] = StrEntry(FormatInt(delta), NoExp)])
      [] s[ck].kind = "str" /\ ParseInt(s[ck].val).ok ->
            Reply(FALSE, FALSE, ParseInt(s[ck].val).n + delta,
                  [s EXCEPT ![ck].val = FormatInt(ParseInt(s[ck].val).n + delta)])
      [] OTHER -> Reply(TRUE, FALSE, 0, s)

\* HSET key field value: the field is written without expiration
SrvHset(s, ck, f, v) ==
    CASE s[ck].kind = "str" -> Reply(TRUE, FALSE, <<>>, s)
      [] s[ck].kind = "none" ->
            Reply(FALSE, FALSE, <<>>,
                  [s EXCEPT ![ck] =
                      HashEntry([NoFields EXCEPT ![f] = Field(v, NoExp)], NoExp)])
      [] OTHER ->
            Reply(FALSE, FALSE, <<>>, [s EXCEPT ![ck].val[f] = Field(v, NoExp)])

\* HSETEX as HSET followed by EXPIRE of the whole key
SrvHsetexKeyWide(s, ck, f, v, secs) ==
    CASE secs <= 0 -> Reply(TRUE, FALSE, <<>>, s)
      [] s[ck].kind = "str" -> Reply(TRUE, FALSE, <<>>, s)
      [] OTHER ->
            Reply(FALSE, FALSE, <<>>,
                  [SrvHset(s, ck, f, v).s EXCEPT ![ck].exp = DeadlineSecs(secs)])

\* HSETEX key EX secs FIELDS 1 field value
SrvHsetex(s, ck, f, v, secs) ==
    CASE secs <= 0 -> Reply(TRUE, FALSE, <<>>, s)
      [] s[ck].kind = "str" -> Reply(TRUE, FALSE, <<>>, s)
      [] s[ck].kind = "none" ->
            Reply(FALSE, FALSE, <<>>,
                  [s EXCEPT ![ck] =
                      HashEntry([NoFields EXCEPT ![f] = Field(v, DeadlineSecs(secs))],
                                NoExp)])
      [] OTHER ->
            Reply(FALSE, FALSE, <<>>,
                  [s EXCEPT ![ck].val[f] = Field(v, DeadlineSecs(secs))])

\* HGET key field
SrvHget(s, ck, f) ==
    CASE s[ck].kind = "str" -> Reply(TRUE, FALSE, <<>>, s)
      [] s[ck].kind = "hash" /\ s[ck].val[f].has ->
            Reply(FALSE, FALSE, s[ck].val[f].val, s)
      [] OTHER -> Reply(FALSE, TRUE, <<>>, s)

\* HGETEX key EX secs FIELDS 1 field: an array with the value, or with nil
SrvHgetex(s, ck, f, secs) ==
    CASE secs <= 0 -> Reply(TRUE, FALSE, <<>>, s)
      [] s[ck].kind = "str" -> Reply(TRUE, FALSE, <<>>, s)
      [] s[ck].kind = "hash" /\ s[ck].val[f].has ->
            Reply(FALSE, FALSE, s[ck].val[f].val,
                  [s EXCEPT ![ck].val[f].exp = DeadlineSecs(secs)])
      [] OTHER -> Reply(FALSE, TRUE, <<>>, s)

\* HDEL key field [field ...]
SrvHdel(s, ck, fs) ==
    CASE s[ck].kind = "str" -> Reply(TRUE, FALSE, 0, s)
      [] s[ck].kind = "none" -> Reply(FALSE, FALSE, 0, s)
      [] OTHER ->
            Reply(FALSE, FALSE, Cardinality({f \in fs : s[ck].val[f].has}),
                  [s EXCEPT ![ck] =
                      HashEntry([f \in Fields |->
                                   IF f \in fs THEN NoField ELSE s[ck].val[f]],
                                s[ck].exp)])

\* HGETALL key: the fields the hash has, with their values
SrvHgetall(s, ck) ==
    CASE s[ck].kind = "str" -> Reply(TRUE, FALSE, NoFields, s)
      [] s[ck].kind = "none" -> Reply(FALSE, FALSE, NoFields, s)
      [] OTHER -> Reply(FALSE, FALSE, s[ck].val, s)

-----------------------------------------------------------------------------
(* What an operation returned, and the history the properties read.        *)

lockVars == <<pc, own, rlock, ret, lockCtx>>
ctorVars == <<onceDone, vkClient, vkClientErr, created, inst>>

\* op: the method; found/val: the (T, bool) of a read; err: a non-nil error;
\* n: the int64 returned; cmds: backend commands the call issued
Result(op, key, fld, found, val, err, n, cmds) ==
    [op |-> op, key |-> key, fld |-> fld, found |-> found, val |-> val,
     err |-> err, n |-> n, cmds |-> cmds]

NoResult == Result("none", <<>>, <<>>, FALSE, <<>>, FALSE, 0, 0)

Range(q) == {q[i] : i \in 1..Len(q)}

\* history: the last successful Set/SetWithTTL of a key that nothing has
\* overwritten or deleted since: its value, its time, the TTL asked for
\* f: the same for every field of a hash the key holds
NoFieldWrite == [w |-> FALSE, val |-> <<>>, at |-> 0, ttl |-> 0]
NoWrite == [w |-> FALSE, val |-> <<>>, at |-> 0, ttl |-> 0,
            f |-> [x \in Fields |-> NoFieldWrite]]
Wrote(v, ttl) == [NoWrite EXCEPT !.w = TRUE, !.val = v, !.at = now, !.ttl = ttl]
FieldWrote(h, field, v, ttl) ==
    [h EXCEPT !.f[field] = [w |-> TRUE, val |-> v, at |-> now, ttl |-> ttl]]
NoHist == [k \in Keys |-> NoWrite]

-----------------------------------------------------------------------------
(* The remote engine: RemoteCacheValkey[T].                                *)

\* what Get and HGet make of a reply: ToString() fails on an error and on
\* nil, an empty string is taken for a miss, then the value is deserialized
\* c.serDe.Deserialize([]byte(val)) and what the read returns after it
Decoded(c, op, key, fld, data) ==
    LET d == Deserialize(c.serde, c.T, data)
    IN  CASE d.outcome = "panic" -> Result("panic", key, fld, FALSE, <<>>, FALSE, 0, 1)
          [] d.outcome = "err" -> Result(op, key, fld, FALSE, <<>>, FALSE, 0, 1)
          [] OTHER -> Result(op, key, fld, TRUE, d.val.v, FALSE, 0, 1)

ReadResult(c, op, key, fld, r) ==
    CASE r.err \/ r.nil -> Result(op, key, fld, FALSE, <<>>, FALSE, 0, 1)
      [] r.val = <<>> -> Result(op, key, fld, FALSE, <<>>, FALSE, 0, 1)
      [] OTHER -> Decoded(c, op, key, fld, r.val)

RemoteGet(c, key) ==
    LET ck == makeKey(c, key)
        r  == IF ~c.touch THEN SrvGet(srv, ck)
              ELSE SrvGetex(srv, ck, Seconds(c.ttl))
    IN  /\ c.mode # "local"
        /\ srv' = r.s
        /\ lastOp' = ReadResult(c, "Get", key, <<>>, r)
        /\ UNCHANGED <<now, cfg, loc, pend, hist, lockVars, ctorVars, sd>>

RemoteSetWithTTL(c, key, value, ttl) ==
    LET data == Serialize(c.serde, Val(c, value))
        r    == SrvSetEx(srv, makeKey(c, key), data.data, Seconds(ttl))
    IN  /\ c.mode # "local"
        /\ srv' = r.s
        /\ lastOp' = Result("SetWithTTL", key, <<>>, FALSE, value, r.err, ttl, 1)
        /\ hist' = [hist EXCEPT ![key] = IF r.err THEN @ ELSE Wrote(value, ttl)]
        /\ UNCHANGED <<now, cfg, loc, pend, lockVars, ctorVars, sd>>

RemoteSet(c, key, value) ==
    LET data == Serialize(c.serde, Val(c, value))
        r    == IF c.ttl > 0
                THEN SrvSetEx(srv, makeKey(c, key), data.data, Seconds(c.ttl))
                ELSE SrvSet(srv, makeKey(c, key), data.data)
    IN  /\ c.mode # "local"
        /\ srv' = r.s
        /\ lastOp' = Result("Set", key, <<>>, FALSE, value, r.err, c.ttl, 1)
        /\ hist' = [hist EXCEPT ![key] = IF r.err THEN @ ELSE Wrote(value, c.ttl)]
        /\ UNCHANGED <<now, cfg, loc, pend, lockVars, ctorVars, sd>>

RemoteExpire(c, key, ttl) ==
    LET r == SrvExpire(srv, makeKey(c, key), Seconds(ttl))
    IN  /\ c.mode # "local"
        /\ srv' = r.s
        /\ lastOp' = Result("Expire", key, <<>>, FALSE, <<>>, r.err, ttl, 1)
        /\ hist' = [hist EXCEPT ![key] = NoWrite]
        /\ UNCHANGED <<now, cfg, loc, pend, lockVars, ctorVars, sd>>

RemoteDelete(c, key) ==
    LET r == SrvDel(srv, {makeKey(c, key)})
    IN  /\ c.mode # "local"
        /\ srv' = r.s
        /\ lastOp' = Result("Delete", key, <<>>, FALSE, <<>>, r.err, 0, 1)
        /\ hist' = [hist EXCEPT ![key] = NoWrite]
        /\ UNCHANGED <<now, cfg, loc, pend, lockVars, ctorVars, sd>>

\* keys is the variadic argument: a sequence of user keys
RemoteDeleteMulti(c, keys) ==
    LET compositeKeys == [i \in 1..Len(keys) |-> makeKey(c, keys[i])]
        r == SrvDel(srv, Range(compositeKeys))
    IN  /\ c.mode # "local"
        /\ IF Len(keys) = 0
           THEN /\ srv' = srv
                /\ lastOp' = Result("DeleteMulti", keys, <<>>, FALSE, <<>>, FALSE, 0, 0)
           ELSE /\ srv' = r.s
                /\ lastOp' = Result("DeleteMulti", keys, <<>>, FALSE, <<>>, r.err,
                                    IF r.err THEN 0 ELSE r.val, 1)
        /\ hist' = [k \in Keys |-> IF k \in Range(keys) THEN NoWrite ELSE hist[k]]
        /\ UNCHANGED <<now, cfg, loc, pend, lockVars, ctorVars, sd>>

\* Increment without the caller: INCRBY is one command, the server runs
\* it in one piece
Incrby(c, key, delta) ==
    LET r == SrvIncrby(srv, makeKey(c, key), delta)
    IN  /\ c.mode # "local"
        /\ srv' = r.s
        /\ lastOp' = Result("Increment", key, <<>>, FALSE, <<>>, r.err,
                            IF r.err THEN 0 ELSE r.val, 1)
        /\ hist' = [hist EXCEPT ![key] = NoWrite]
        /\ UNCHANGED <<now, cfg, loc, pend, ctorVars, sd>>

RemoteIncrement(c, key, delta) ==
    /\ Incrby(c, key, delta)
    /\ UNCHANGED lockVars

\* caller p, one of several goroutines, calls Increment once
CallerIncrement(c, p, key, delta) ==
    /\ pc[p] = "idle"
    /\ Incrby(c, key, delta)
    /\ pc' = [pc EXCEPT ![p] = "done"]
    /\ ret' = [ret EXCEPT ![p] = lastOp'.n]
    /\ UNCHANGED <<own, rlock, lockCtx>>

\* DECRBY key delta is INCRBY key -delta on the server
Decrby(c, key, delta) ==
    LET r == SrvIncrby(srv, makeKey(c, key), 0 - delta)
    IN  /\ c.mode # "local"
        /\ srv' = r.s
        /\ lastOp' = Result("Decrement", key, <<>>, FALSE, <<>>, r.err, r.val, 1)
        /\ hist' = [hist EXCEPT ![key] = NoWrite]
        /\ UNCHANGED <<now, cfg, loc, pend, ctorVars, sd>>

RemoteDecrement(c, key, delta) ==
    /\ Decrby(c, key, delta)
    /\ UNCHANGED lockVars

RemoteHSet(c, key, field, value) ==
    LET data == Serialize(c.serde, Val(c, value))
        r    == SrvHset(srv, makeKey(c, key), field, data.data)
    IN  /\ c.mode # "local"
        /\ srv' = r.s
        /\ lastOp' = Result("HSet", key, field, FALSE, value, r.err, 0, 1)
        /\ hist' = [hist EXCEPT ![key] =
                       IF r.err THEN @ ELSE FieldWrote(@, field, value, 0)]
        /\ UNCHANGED <<now, cfg, loc, pend, lockVars, ctorVars, sd>>

RemoteHSetWithTTL(c, key, field, value, ttl) ==
    LET data == Serialize(c.serde, Val(c, value))
        r    == SrvHsetex(srv, makeKey(c, key), field, data.data, Seconds(ttl))
    IN  /\ c.mode # "local"
        /\ srv' = r.s
        /\ lastOp' = Result("HSetWithTTL", key, field, FALSE, value, r.err, ttl, 1)
        /\ hist' = [hist EXCEPT ![key] =
                       IF r.err THEN @ ELSE FieldWrote(@, field, value, ttl)]
        /\ UNCHANGED <<now, cfg, loc, pend, lockVars, ctorVars, sd>>

\* HGET: the reply goes to Deserialize unless it is an error or nil.
\* HGETEX answers with an array; AsStrSlice leaves a nil element out, and an
\* empty array or an empty first element is a miss
RemoteHGet(c, key, field) ==
    LET ck == makeKey(c, key)
        r  == IF ~c.touch THEN SrvHget(srv, ck, field)
              ELSE SrvHgetex(srv, ck, field, Seconds(c.ttl))
    IN  /\ c.mode # "local"
        /\ srv' = r.s
        /\ lastOp' = IF ~c.touch /\ ~r.err /\ ~r.nil /\ r.val = <<>>
                     THEN Decoded(c, "HGet", key, field, r.val)
                     ELSE ReadResult(c, "HGet", key, field, r)
        /\ UNCHANGED <<now, cfg, loc, pend, hist, lockVars, ctorVars, sd>>

\* fields is the variadic argument, as a set of fields
RemoteHDel(c, key, fields) ==
    LET r == SrvHdel(srv, makeKey(c, key), fields)
    IN  /\ c.mode # "local"
        /\ srv' = r.s
        /\ lastOp' = Result("HDel", key, fields, FALSE, <<>>, r.err, 0, 1)
        /\ hist' = [hist EXCEPT ![key].f =
                       [x \in Fields |->
                          IF ~r.err /\ x \in fields THEN NoFieldWrite ELSE @[x]]]
        /\ UNCHANGED <<now, cfg, loc, pend, lockVars, ctorVars, sd>>

\* a Go map[string]T as a result: the fields it has and their values; nil
\* is told from the empty map by found
Map(fs) == [f \in {x \in DOMAIN fs : fs[x].has} |-> fs[f].val]
NilMap == << >>

\* HGetAll: every value of the reply is deserialized, and the first failure
\* is returned as the error
RemoteHGetAll(c, key) ==
    LET r == SrvHgetall(srv, makeKey(c, key))
        d == [f \in Fields |-> Deserialize(c.serde, c.T, r.val[f].val)]
        present == {f \in Fields : r.val[f].has}
    IN  /\ c.mode # "local"
        /\ srv' = r.s
        /\ lastOp' =
              CASE r.err -> Result("HGetAll", key, <<>>, FALSE, NilMap, TRUE, 0, 1)
                [] \E f \in present : d[f].outcome = "panic" ->
                      Result("panic", key, <<>>, FALSE, NilMap, FALSE, 0, 1)
                [] \E f \in present : d[f].outcome = "err" ->
                      Result("HGetAll", key, <<>>, FALSE, NilMap, TRUE, 0, 1)
                [] OTHER ->
                      Result("HGetAll", key, <<>>, TRUE,
                             [f \in present |-> d[f].val.v], FALSE,
                             Cardinality(present), 1)
        /\ UNCHANGED <<now, cfg, loc, pend, hist, lockVars, ctorVars, sd>>

-----------------------------------------------------------------------------
(* The ristretto cache under the local engine.  Get reads the store; Set   *)
(* of a key the store holds updates it at once; Set of a new key only      *)
(* queues the item in setBuf, and the processItems goroutine adds it later *)
(* (a full setBuf drops it); Del removes the key at once and queues a      *)
(* delete marker behind the items already queued.                          *)

Ids == {1, 2}

NoItem == [has |-> FALSE, val |-> <<>>, exp |-> NoExp]
Item(v, e) == [has |-> TRUE, val |-> v, exp |-> e]
EmptyStore == [k \in Keys |-> NoItem]

PurgeStore(st, t) == [k \in DOMAIN st |-> IF Due(st[k].exp, t) THEN NoItem ELSE st[k]]

\* cache.SetWithTTL(key, val, 1, ttl); ttl = 0 is cache.Set: no expiration
RistSet(st, q, key, val, ttl) ==
    LET e == IF ttl = 0 THEN NoExp ELSE now + ttl
    IN  CASE ttl < 0 -> [st |-> st, q |-> q]
          [] st[key].has -> [st |-> [st EXCEPT ![key] = Item(val, e)], q |-> q]
          [] Len(q) < MaxPend ->
                [st |-> st,
                 q |-> Append(q, [flag |-> "new", key |-> key, val |-> val, exp |-> e])]
          [] OTHER -> [st |-> st, q |-> q]

Queued(q, key) == \E i \in 1..Len(q) : q[i].key = key

\* the marker matters only behind a queued item of the same key
RistDelBlocks(q, key) == Queued(q, key) /\ Len(q) >= MaxPend

\* cache.Del(key)
RistDel(st, q, key) ==
    [st |-> [st EXCEPT ![key] = NoItem],
     q |-> IF Queued(q, key)
           THEN Append(q, [flag |-> "del", key |-> key, val |-> <<>>, exp |-> NoExp])
           ELSE q]

\* a processItems that takes an item off setBuf and throws it away
ProcessItemsDrops(id) ==
    /\ Len(pend[id]) > 0
    /\ pend' = [pend EXCEPT ![id] = Tail(@)]
    /\ lastOp' = NoResult
    /\ UNCHANGED <<now, cfg, srv, loc, hist, lockVars, ctorVars, sd>>

\* the processItems goroutine takes one item off setBuf
ProcessItems(id) ==
    LET i == Head(pend[id])
    IN  /\ Len(pend[id]) > 0
        /\ pend' = [pend EXCEPT ![id] = Tail(@)]
        /\ loc' = [loc EXCEPT ![id][i.key] =
                      IF i.flag = "new" /\ ~Due(i.exp, now)
                      THEN Item(i.val, i.exp) ELSE NoItem]
        /\ lastOp' = NoResult
        /\ UNCHANGED <<now, cfg, srv, hist, lockVars, ctorVars, sd>>

-----------------------------------------------------------------------------
(* The local engine: LocalCacheRistretto[T].                               *)

\* v.(T): the stored value has the cache's type
IsT(c, v) == c.T = "any" \/ v.T = c.T

LocalGet(c, key) ==
    LET it == loc[c.id][key]
    IN  /\ c.mode = "local"
        /\ lastOp' = IF it.has /\ IsT(c, it.val)
                     THEN Result("Get", key, <<>>, TRUE, it.val.v, FALSE, 0, 0)
                     ELSE Result("Get", key, <<>>, FALSE, <<>>, FALSE, 0, 0)
        /\ UNCHANGED <<now, cfg, srv, loc, pend, hist, lockVars, ctorVars, sd>>

LocalSetWithTTL(c, key, value, ttl) ==
    LET r == RistSet(loc[c.id], pend[c.id], key, Val(c, value), ttl)
    IN  /\ c.mode = "local"
        /\ loc' = [loc EXCEPT ![c.id] = r.st]
        /\ pend' = [pend EXCEPT ![c.id] = r.q]
        /\ lastOp' = Result("SetWithTTL", key, <<>>, FALSE, value, FALSE, ttl, 0)
        /\ hist' = [hist EXCEPT ![key] = Wrote(value, ttl)]
        /\ UNCHANGED <<now, cfg, srv, lockVars, ctorVars, sd>>

LocalSet(c, key, value) ==
    LET r == RistSet(loc[c.id], pend[c.id], key, Val(c, value), c.ttl)
    IN  /\ c.mode = "local"
        /\ loc' = [loc EXCEPT ![c.id] = r.st]
        /\ pend' = [pend EXCEPT ![c.id] = r.q]
        /\ lastOp' = Result("Set", key, <<>>, FALSE, value, FALSE, c.ttl, 0)
        /\ hist' = [hist EXCEPT ![key] = Wrote(value, c.ttl)]
        /\ UNCHANGED <<now, cfg, srv, lockVars, ctorVars, sd>>

LocalDelete(c, key) ==
    LET r == RistDel(loc[c.id], pend[c.id], key)
    IN  /\ c.mode = "local"
        /\ ~RistDelBlocks(pend[c.id], key)
        /\ loc' = [loc EXCEPT ![c.id] = r.st]
        /\ pend' = [pend EXCEPT ![c.id] = r.q]
        /\ lastOp' = Result("Delete", key, <<>>, FALSE, <<>>, FALSE, 0, 0)
        /\ hist' = [hist EXCEPT ![key] = NoWrite]
        /\ UNCHANGED <<now, cfg, srv, lockVars, ctorVars, sd>>

\* Expire: ristretto cannot change a TTL, the key is deleted
LocalExpire(c, key, ttl) ==
    LET r == RistDel(loc[c.id], pend[c.id], key)
    IN  /\ c.mode = "local"
        /\ ~RistDelBlocks(pend[c.id], key)
        /\ loc' = [loc EXCEPT ![c.id] = r.st]
        /\ pend' = [pend EXCEPT ![c.id] = r.q]
        /\ lastOp' = Result("Expire", key, <<>>, FALSE, <<>>, FALSE, ttl, 0)
        /\ hist' = [hist EXCEPT ![key] = NoWrite]
        /\ UNCHANGED <<now, cfg, srv, lockVars, ctorVars, sd>>

\* the dynamic type of a map[string]T
MapType(T) ==
    CASE T = "string" -> "map[string]string"
      [] T = "int64" -> "map[string]int64"
      [] OTHER -> "map[string]any"

\* v.(map[string]T)
IsMap(c, v) == v.T = MapType(c.T)

MapValue(c, fs) == Value(MapType(c.T), MapType(c.T), fs)

\* hset: the stored map, or a new one when the key is absent or holds
\* something else, gets m[field] = value and is stored again, with
\* SetWithTTL when ttl > 0 and with Set otherwise
hset(c, op, key, field, value, ttl) ==
    LET it == loc[c.id][key]
        m  == IF it.has /\ IsMap(c, it.val) THEN it.val.v ELSE NoFields
        r  == RistSet(loc[c.id], pend[c.id], key,
                      MapValue(c, [m EXCEPT ![field] = Field(value, NoExp)]),
                      IF ttl > 0 THEN ttl ELSE 0)
    IN  /\ c.mode = "local"
        /\ loc' = [loc EXCEPT ![c.id] = r.st]
        /\ pend' = [pend EXCEPT ![c.id] = r.q]
        /\ lastOp' = Result(op, key, field, FALSE, value, FALSE, ttl, 0)
        /\ hist' = [hist EXCEPT ![key] = FieldWrote(@, field, value, ttl)]
        /\ UNCHANGED <<now, cfg, srv, lockVars, ctorVars, sd>>

LocalHSet(c, key, field, value) == hset(c, "HSet", key, field, value, 0)

LocalHSetWithTTL(c, key, field, value, ttl) ==
    hset(c, "HSetWithTTL", key, field, value, ttl)

LocalHGet(c, key, field) ==
    LET it == loc[c.id][key]
    IN  /\ c.mode = "local"
        /\ lastOp' = IF it.has /\ IsMap(c, it.val) /\ it.val.v[field].has
                     THEN Result("HGet", key, field, TRUE, it.val.v[field].val, FALSE, 0, 0)
                     ELSE Result("HGet", key, field, FALSE, <<>>, FALSE, 0, 0)
        /\ UNCHANGED <<now, cfg, srv, loc, pend, hist, lockVars, ctorVars, sd>>

\* HGetAll: an empty map for an absent key, nil for a value that is no
\* map, a copy of the map otherwise; never an error
LocalHGetAll(c, key) ==
    LET it == loc[c.id][key]
    IN  /\ c.mode = "local"
        /\ lastOp' =
              CASE ~it.has -> Result("HGetAll", key, <<>>, TRUE, Map(NoFields), FALSE, 0, 0)
                [] ~IsMap(c, it.val) ->
                      Result("HGetAll", key, <<>>, FALSE, NilMap, FALSE, 0, 0)
                [] OTHER ->
                      Result("HGetAll", key, <<>>, TRUE, Map(it.val.v), FALSE,
                             Cardinality(DOMAIN Map(it.val.v)), 0)
        /\ UNCHANGED <<now, cfg, srv, loc, pend, hist, lockVars, ctorVars, sd>>

\* HDel that stores a map in any case, as hset does
LocalHDelOverwrites(c, key, fields) ==
    LET it == loc[c.id][key]
        m0 == IF it.has /\ IsMap(c, it.val) THEN it.val.v ELSE NoFields
        m  == [f \in Fields |-> IF f \in fields THEN NoField ELSE m0[f]]
        r  == RistSet(loc[c.id], pend[c.id], key, MapValue(c, m), 0)
    IN  /\ c.mode = "local"
        /\ loc' = [loc EXCEPT ![c.id] = r.st]
        /\ pend' = [pend EXCEPT ![c.id] = r.q]
        /\ lastOp' = Result("HDel", key, fields, FALSE, <<>>, FALSE, 0, 0)
        /\ hist' = [hist EXCEPT ![key].f =
                       [x \in Fields |-> IF x \in fields THEN NoFieldWrite ELSE @[x]]]
        /\ UNCHANGED <<now, cfg, srv, lockVars, ctorVars, sd>>

\* HDel: nothing for an absent key or a value that is no map; otherwise
\* the fields are deleted from the map and the map is Set again, which
\* drops the TTL the key had
LocalHDel(c, key, fields) ==
    LET it == loc[c.id][key]
        m  == [f \in Fields |-> IF f \in fields THEN NoField ELSE it.val.v[f]]
        r  == IF it.has /\ IsMap(c, it.val)
              THEN RistSet(loc[c.id], pend[c.id], key, MapValue(c, m), 0)
              ELSE [st |-> loc[c.id], q |-> pend[c.id]]
    IN  /\ c.mode = "local"
        /\ loc' = [loc EXCEPT ![c.id] = r.st]
        /\ pend' = [pend EXCEPT ![c.id] = r.q]
        /\ lastOp' = Result("HDel", key, fields, FALSE, <<>>, FALSE, 0, 0)
        /\ hist' = [hist EXCEPT ![key].f =
                       [x \in Fields |->
                          IF it.has /\ IsMap(c, it.val) /\ x \in fields
                          THEN NoFieldWrite ELSE @[x]]]
        /\ UNCHANGED <<now, cfg, srv, lockVars, ctorVars, sd>>

\* the Go types Increment can read a number from
NumericTypes == {"int64", "int", "float64"}

\* Increment, and Decrement as Increment(key, -delta): Get, then the value
\* as an int64 (0, nil is returned for a value that is no number), then
\* any(newVal).(T), which panics unless T is int64 or any, then c.Set
LocalCounter(c, op, key, delta) ==
    LET it     == loc[c.id][key]
        found  == it.has /\ IsT(c, it.val)
        newVal == (IF found THEN it.val.v ELSE 0) + delta
        r      == RistSet(loc[c.id], pend[c.id], key,
                          Value(c.T, "int64", newVal), c.ttl)
    IN  /\ c.mode = "local"
        /\ CASE found /\ it.val.dyn \notin NumericTypes ->
                    /\ lastOp' = Result(op, key, <<>>, FALSE, <<>>, FALSE, 0, 0)
                    /\ UNCHANGED <<loc, pend>>
              [] c.T \notin {"int64", "any"} ->
                    /\ lastOp' = Result("panic", key, <<>>, FALSE, <<>>, FALSE, 0, 0)
                    /\ UNCHANGED <<loc, pend>>
              [] OTHER ->
                    /\ lastOp' = Result(op, key, <<>>, FALSE, <<>>, FALSE, newVal, 0)
                    /\ loc' = [loc EXCEPT ![c.id] = r.st]
                    /\ pend' = [pend EXCEPT ![c.id] = r.q]
        /\ hist' = [hist EXCEPT ![key] = NoWrite]
        /\ UNCHANGED <<now, cfg, srv, ctorVars, sd>>

LocalIncrement(c, key, delta) ==
    /\ LocalCounter(c, "Increment", key, delta)
    /\ UNCHANGED lockVars

LocalDecrement(c, key, delta) ==
    /\ LocalCounter(c, "Decrement", key, 0 - delta)
    /\ UNCHANGED lockVars

\* the state after deleting keys[1..n] one after another, and how many of
\* them the store held when their turn came
RECURSIVE DelEach(_, _, _, _)
DelEach(st, q, keys, n) ==
    IF n = 0 THEN [st |-> st, q |-> q, count |-> 0]
    ELSE LET before == DelEach(st, q, keys, n - 1)
             r == RistDel(before.st, before.q, keys[n])
         IN  [st |-> r.st, q |-> r.q,
              count |-> before.count + (IF before.st[keys[n]].has THEN 1 ELSE 0)]

\* DeleteMulti of the local engine: every listed key is deleted, and the
\* keys that were there are counted
LocalDeleteMulti(c, keys) ==
    LET r == DelEach(loc[c.id], pend[c.id], keys, Len(keys))
    IN  /\ c.mode = "local"
        /\ \A k \in Range(keys) : ~RistDelBlocks(pend[c.id], k)
        /\ loc' = [loc EXCEPT ![c.id] = r.st]
        /\ pend' = [pend EXCEPT ![c.id] = r.q]
        /\ lastOp' = Result("DeleteMulti", keys, <<>>, FALSE, <<>>, FALSE, r.count, 0)
        /\ hist' = [k \in Keys |-> IF k \in Range(keys) THEN NoWrite ELSE hist[k]]
        /\ UNCHANGED <<now, cfg, srv, lockVars, ctorVars, sd>>

\* time passes: expired entries are gone from both backends
Tick ==
    /\ now < MaxTime
    /\ now' = now + 1
    /\ srv' = Purge(srv, now + 1)
    /\ loc' = [i \in Ids |-> PurgeStore(loc[i], now + 1)]
    /\ lastOp' = NoResult
    /\ UNCHANGED <<cfg, pend, hist, lockVars, ctorVars, sd>>

-----------------------------------------------------------------------------
(* The states the parts of the model rest in while another part runs.      *)

\* package variable vkClient: nil, or the handle valkey.NewClient returned
NilClient == [id |-> 0, open |-> FALSE]
Handle(n) == [id |-> n, open |-> TRUE]

Callers == 1..NCallers

DataIdle ==
    /\ now = 0
    /\ srv = EmptySrv
    /\ loc = [i \in Ids |-> EmptyStore]
    /\ pend = [i \in Ids |-> <<>>]
    /\ lastOp = NoResult
    /\ hist = NoHist

LockIdle ==
    /\ pc = [p \in Callers |-> "idle"]
    /\ own = [p \in Callers |-> <<>>]
    /\ rlock = [ck \in CKeys |-> 0]
    /\ ret = [p \in Callers |-> 0]
    /\ lockCtx = [p \in Callers |-> FALSE]

CtorIdle ==
    /\ onceDone = FALSE
    /\ vkClient = NilClient
    /\ vkClientErr = FALSE
    /\ created = 0
    /\ inst = <<>>

-----------------------------------------------------------------------------
(* Spec: one cache of strings, local or remote, one key, and the clock.    *)

\* the values the callers store
Vals == {<<>>, <<"a">>}

TheKey == <<"k">>

Init ==
    /\ cfg \in Configs
    /\ DataIdle /\ LockIdle /\ CtorIdle
    /\ sd = SdIdle

Next ==
    \/ RemoteGet(cfg, TheKey)
    \/ \E v \in Vals : RemoteSet(cfg, TheKey, v)
    \/ \E v \in Vals, ttl \in TTLs : RemoteSetWithTTL(cfg, TheKey, v, ttl)
    \/ RemoteDelete(cfg, TheKey)
    \/ \E ttl \in TTLs : RemoteExpire(cfg, TheKey, ttl)
    \/ LocalGet(cfg, TheKey)
    \/ \E v \in Vals : LocalSet(cfg, TheKey, v)
    \/ \E v \in Vals, ttl \in TTLs : LocalSetWithTTL(cfg, TheKey, v, ttl)
    \/ LocalDelete(cfg, TheKey)
    \/ \E ttl \in TTLs : LocalExpire(cfg, TheKey, ttl)
    \/ ProcessItems(cfg.id)
    \/ Tick

Spec == Init /\ [][Next]_vars

-----------------------------------------------------------------------------
(* Properties of Spec.                                                     *)

\* the time the backend lets the entry of key go (NoExp: never)
Deadline(c, key) ==
    IF c.mode = "local" THEN loc[c.id][key].exp ELSE srv[makeKey(c, key)].exp

WholeSeconds(ttl) == ttl > 0 /\ ttl % TicksPerSec = 0

\* C5: a Get that finds the entry leaves it, with applyTouch and a default
\* TTL of whole seconds, expiring defaultTTL after the read, and without
\* applyTouch expiring when it would have expired anyway
C5_TouchResetsTTL ==
    [][(lastOp'.op = "Get" /\ lastOp'.found) =>
          IF cfg.touch
          THEN WholeSeconds(cfg.ttl) => Deadline(cfg, TheKey)' = now + cfg.ttl
          ELSE Deadline(cfg, TheKey)' = Deadline(cfg, TheKey)]_vars

\* C6: in a remote cache without applyTouch, a Get after a successful write
\* of a non-empty value v with a TTL finds v while the TTL has not elapsed,
\* and misses once it has
C6_ExpiresAfterTTL ==
    (/\ cfg.mode # "local" /\ ~cfg.touch
     /\ lastOp.op = "Get" /\ hist[TheKey].w
     /\ hist[TheKey].ttl > 0 /\ hist[TheKey].val # <<>>)
    => /\ now < hist[TheKey].at + hist[TheKey].ttl
            => lastOp.found /\ lastOp.val = hist[TheKey].val
       /\ now > hist[TheKey].at + hist[TheKey].ttl => ~lastOp.found

\* the step's write of the key was taken: by the server, by the store
\* (the key was there) or by setBuf (ristretto queued it); a write that
\* ristretto dropped was not
WriteTaken(c, key) ==
    \/ c.mode # "local"
    \/ loc[c.id][key].has
    \/ pend'[c.id] # pend[c.id]

\* the expiration the step's write of the key was stored with
WriteExp(c, key) ==
    CASE c.mode # "local" -> srv'[makeKey(c, key)].exp
      [] loc[c.id][key].has -> loc'[c.id][key].exp
      [] OTHER -> pend'[c.id][Len(pend'[c.id])].exp

\* C18: a plain Set succeeds and stores the entry to expire defaultTTL
\* after the call when defaultTTL > 0, and never when defaultTTL is zero
C18_SetAppliesDefaultTTL ==
    [][lastOp'.op = "Set" =>
          /\ ~lastOp'.err
          /\ WriteTaken(cfg, TheKey) =>
                WriteExp(cfg, TheKey) = (IF cfg.ttl > 0 THEN now + cfg.ttl ELSE NoExp)]_vars

-----------------------------------------------------------------------------
(* SpecSerDe: a value goes through Serialize and then Deserialize of the   *)
(* cache's serializer, as Set followed by Get does with it.                *)

IdleConfig == Config(1, "remote", <<"n">>, 0, FALSE)

SerializeStep ==
    /\ sd.stage = "in"
    /\ sd' = [stage |-> "ser", serde |-> sd.serde, val |-> sd.val,
              data |-> Serialize(sd.serde, sd.val)]
    /\ UNCHANGED <<now, cfg, srv, loc, pend, lastOp, hist, lockVars, ctorVars>>

DeserializeStep ==
    /\ sd.stage = "ser"
    /\ ~sd.data.err
    /\ \E o \in DeserializeOutcomes(sd.serde, sd.val.T, sd.data.data) :
          sd' = [stage |-> "de", serde |-> sd.serde, val |-> sd.val,
                 data |-> sd.data, out |-> o]
    /\ UNCHANGED <<now, cfg, srv, loc, pend, lastOp, hist, lockVars, ctorVars>>

InitSerDe ==
    /\ cfg = IdleConfig
    /\ DataIdle /\ LockIdle /\ CtorIdle
    /\ \E i \in SerDeInputs : sd = [stage |-> "in", serde |-> i.serde, val |-> i.val]

NextSerDe == SerializeStep \/ DeserializeStep

SpecSerDe == InitSerDe /\ [][NextSerDe]_vars

ScalarKinds == {"string", "bool"} \cup IntKinds \cup UintKinds \cup FloatKinds

\* C10: with the default serializer and a scalar value type, Deserialize
\* of what Serialize made of v returns v, without error and without panic
C10_RoundTrip ==
    (sd.stage = "de" /\ sd.serde = "default" /\ sd.val.T \in ScalarKinds)
    => /\ sd.out.outcome = "ok"
       /\ sd.out.val = sd.val

-----------------------------------------------------------------------------
(* Construction: NewCache, the process-wide valkey client and the release  *)
(* functions.  inst holds one record per NewCache call.                    *)

Modes == {"local", "remote", "cluster", "sentinel"}

\* CacheConfig.Mode is a string: the four documented values, the empty
\* string and a value that is none of them
AnyModes == Modes \cup {"", "LOCAL"}

\* a NewCache that picks the remote engine for the documented remote modes
NewCacheByList(mode) ==
    IF mode \in {"remote", "cluster", "sentinel"} THEN "remote" ELSE "local"

\* NewCache: the constructor it calls
NewCache(mode) == IF mode = "local" THEN "local" ELSE "remote"

\* RemoteCacheAddr: a server that answers, a well-formed address nobody
\* listens on, and a string that is no URL
Addrs == {"up", "down", "bad"}

\* valkey.MustParseURL panics where ParseURL returns an error
MustParseURLPanics(addr) == addr = "bad"

\* a Do that runs f every time
OnceRunsAlways(done) == TRUE

\* vkClientOnce.Do(f) runs f unless a Do has run before
OnceRuns(done) == ~done

Call(mode, addr, st, engine, err, release, locker) ==
    [mode |-> mode, addr |-> addr, st |-> st, engine |-> engine, err |-> err,
     release |-> release, locker |-> locker, rel |-> 0, relPanic |-> FALSE,
     closed |-> FALSE]

\* vkClient, vkClientErr = valkey.NewClient(options)
NewClient(addr) ==
    IF addr = "up"
    THEN /\ vkClient' = Handle(created + 1)
         /\ vkClientErr' = FALSE
         /\ created' = created + 1
    ELSE /\ vkClient' = NilClient
         /\ vkClientErr' = TRUE
         /\ created' = created

\* NewCache with Mode "local": NewLocalCacheRistretto; ristretto.NewCache
\* accepts the fixed configuration, cleanup closes the cache
NewLocalCacheRistretto(mode, addr) ==
    /\ NewCache(mode) = "local"
    /\ Len(inst) < MaxCalls
    /\ inst' = Append(inst, Call(mode, addr, "done", "local", FALSE, "close", 0))
    /\ lastOp' = NoResult
    /\ UNCHANGED <<now, cfg, srv, loc, pend, hist, lockVars, sd,
                   onceDone, vkClient, vkClientErr, created>>

\* NewRemoteCacheValkey up to the end of the switch: the address is parsed
\* inside the once-only function for cluster and sentinel, before it
\* otherwise; a panic inside Do leaves the Once done
NewRemoteCacheValkey(mode, addr) ==
    LET inside == mode \in {"cluster", "sentinel"}
        runs   == OnceRuns(onceDone)
        parsed == IF inside THEN runs ELSE TRUE
        panics == parsed /\ MustParseURLPanics(addr)
    IN  /\ NewCache(mode) = "remote"
        /\ Len(inst) < MaxCalls
        /\ inst' = Append(inst, Call(mode, addr, IF panics THEN "panic" ELSE "switch",
                                     "nil", FALSE, "nil", 0))
        /\ onceDone' = (onceDone \/ (runs /\ (inside \/ ~panics)))
        /\ IF runs /\ ~panics
           THEN NewClient(addr)
           ELSE UNCHANGED <<vkClient, vkClientErr, created>>
        /\ lastOp' = NoResult
        /\ UNCHANGED <<now, cfg, srv, loc, pend, hist, lockVars, sd>>

\* the rest of NewRemoteCacheValkey: the error check, the locker built on
\* the shared client, the cleanup closure that does nothing
NewRemoteCacheValkeyReturn(i) ==
    /\ inst[i].st = "switch"
    /\ inst' = [inst EXCEPT ![i] =
                  IF vkClientErr
                  THEN [@ EXCEPT !.st = "done", !.err = TRUE]
                  ELSE [@ EXCEPT !.st = "done", !.engine = "remote",
                                 !.release = "noop", !.locker = vkClient.id]]
    /\ lastOp' = NoResult
    /\ UNCHANGED <<now, cfg, srv, loc, pend, hist, lockVars, sd,
                   onceDone, vkClient, vkClientErr, created>>

\* the caller calls the release function NewCache returned: a nil func
\* panics, the remote cleanup does nothing, the local one closes the cache
Release(i) ==
    /\ inst[i].st = "done"
    /\ inst[i].rel < MaxRel
    /\ inst' = [inst EXCEPT ![i].rel = @ + 1,
                            ![i].relPanic = @ \/ inst[i].release = "nil",
                            ![i].closed = @ \/ inst[i].release = "close"]
    /\ lastOp' = Result(IF inst[i].release = "nil" THEN "panic" ELSE "release",
                        <<>>, <<>>, FALSE, <<>>, FALSE, i, 0)
    /\ UNCHANGED <<now, cfg, srv, loc, pend, hist, lockVars, sd,
                   onceDone, vkClient, vkClientErr, created>>

\* a command through an engine NewCache returned without error: the remote
\* engine calls vkClient.Do on the package variable
Use(i) ==
    /\ inst[i].st = "done"
    /\ ~inst[i].err
    /\ lastOp' = CASE inst[i].engine = "local" ->
                        Result("Use", <<>>, <<>>, FALSE, <<>>, FALSE, i, 0)
                   [] vkClient.id = 0 ->
                        Result("panic", <<>>, <<>>, FALSE, <<>>, FALSE, i, 0)
                   [] OTHER ->
                        Result("Use", <<>>, <<>>, FALSE, <<>>, ~vkClient.open, i, 1)
    /\ UNCHANGED <<now, cfg, srv, loc, pend, hist, lockVars, sd, ctorVars>>

InitCtor ==
    /\ cfg = IdleConfig
    /\ DataIdle /\ LockIdle /\ CtorIdle
    /\ sd = SdIdle

NextCtor ==
    \/ \E m \in Modes, a \in Addrs : NewLocalCacheRistretto(m, a)
    \/ \E m \in Modes, a \in Addrs : NewRemoteCacheValkey(m, a)
    \/ \E i \in 1..Len(inst) : NewRemoteCacheValkeyReturn(i)
    \/ \E i \in 1..Len(inst) : Release(i)
    \/ \E i \in 1..Len(inst) : Use(i)

SpecCtor == InitCtor /\ [][NextCtor]_vars

Done(i) == inst[i].st = "done"

\* SpecMode: NewCache calls with any Mode string, against a server that
\* answers or one that does not
InitMode == InitCtor

NextMode ==
    \/ \E m \in AnyModes : NewLocalCacheRistretto(m, "up")
    \/ \E m \in AnyModes, a \in {"up", "down"} : NewRemoteCacheValkey(m, a)
    \/ \E i \in 1..Len(inst) : NewRemoteCacheValkeyReturn(i)
    \/ \E i \in 1..Len(inst) : Use(i)

SpecMode == InitMode /\ [][NextMode]_vars

C2_ReleaseIsSafe ==
    \A i \in 1..Len(inst) : ~inst[i].relPanic

\* C3: no NewCache call panics, and a call with a malformed or unreachable
\* remote address returns an error and no engine
C3_NewCacheReportsErrors ==
    \A i \in 1..Len(inst) :
        /\ inst[i].st # "panic"
        /\ (Done(i) /\ inst[i].mode # "local" /\ inst[i].addr # "up" /\ created = 0)
              => inst[i].err /\ inst[i].engine = "nil"

\* C4: the client handle is created at most once, the locker of every
\* remote engine is built on the handle the package variable holds, the
\* handle is never closed, and a command through a remote engine whose
\* client exists does not fail whatever was released before
C4_SharedClient ==
    /\ created <= 1
    /\ vkClient.id = created
    /\ created = 1 => vkClient.open
    /\ \A i \in 1..Len(inst) :
          (Done(i) /\ inst[i].engine = "remote") => inst[i].locker = vkClient.id
    /\ (lastOp.op = "Use" /\ created = 1) => ~lastOp.err

\* two remote engines, one of them released, and a command through the
\* other one answered by the shared client
C4_SiblingStillWorks ==
    \E i, j \in 1..Len(inst) :
        /\ i # j
        /\ Done(i) /\ inst[i].engine = "remote"
        /\ Done(j) /\ inst[j].engine = "remote" /\ inst[j].rel > 0
        /\ inst[i].mode # inst[j].mode
        /\ lastOp.op = "Use" /\ lastOp.n = i /\ ~lastOp.err /\ lastOp.cmds = 1

-----------------------------------------------------------------------------
(* Locks.  pc[p] is where caller p stands in a lock call, own[p] the key   *)
(* whose lock it holds.  The local engine keeps the lock as an ordinary    *)
(* entry "locked" of its ristretto cache; the remote engine asks the       *)
(* valkeylock locker, which grants a name to one holder at a time and      *)
(* keeps extending it until the holder cancels: rlock[k] is that holder.   *)

Locked == Value("string", "string", <<"l", "o", "c", "k", "e", "d">>)

LockResult(op, p, key, err) == Result(op, key, <<>>, FALSE, <<>>, err, p, 0)

\* error values: the sentinels errors.Is finds in the chain, and the text
\* of err.Error()
Error(is, text) == [is |-> is, text |-> text]

\* var ErrNotLocked = errors.New("lock not acquired")
ErrNotLocked ==
    Error({"cache.ErrNotLocked"},
          <<"l", "o", "c", "k", " ", "n", "o", "t", " ",
            "a", "c", "q", "u", "i", "r", "e", "d">>)

\* the locker's own error of a lock that is held by someone else
LockerErrNotLocked ==
    Error({"valkeylock.ErrNotLocked"},
          <<"n", "o", "t", " ", "l", "o", "c", "k", "e", "d">>)

\* ctx.Err() of the caller's context once it is cancelled
ContextCanceled ==
    Error({"context.Canceled"},
          <<"c", "o", "n", "t", "e", "x", "t", " ",
            "c", "a", "n", "c", "e", "l", "e", "d">>)

ErrorsIs(e, target) == target.is \subseteq e.is

\* strings.Contains
Contains(t, sub) ==
    \E i \in 0..(Len(t) - Len(sub)) : SubSeq(t, i + 1, i + Len(sub)) = sub

\* fmt.Errorf("%w: %v", w, e): wraps w only, and prints both
Errorf(w, e) == Error(w.is, w.text \o <<":", " ">> \o e.text)

\* a lock call that failed with the error e
LockError(op, p, key, e) == Result(op, key, <<>>, FALSE, e, TRUE, p, 0)

\* the entry point of a local lock call that is between its two halves
LocalLockOp(p) == IF pc[p] = "get" THEN "Lock" ELSE "TryLock"

\* LocalCacheRistretto.LockWithContext, first half: c.cache.Get(key), and
\* ErrNotLocked at once when the key is found; op names the entry point,
\* since TryLockWithContext is a call of LockWithContext
LocalLockWithContext(c, p, key, op) ==
    /\ c.mode = "local"
    /\ pc[p] = "idle"
    /\ IF loc[c.id][key].has
       THEN /\ pc' = pc
            /\ lastOp' = LockError(op, p, key, ErrNotLocked)
       ELSE /\ pc' = [pc EXCEPT ![p] = IF op = "Lock" THEN "get" ELSE "tryget"]
            /\ lastOp' = NoResult
    /\ own' = [own EXCEPT ![p] = IF loc[c.id][key].has THEN @ ELSE key]
    /\ UNCHANGED <<now, cfg, srv, loc, pend, hist, rlock, ctorVars, sd, ret, lockCtx>>

\* LocalCacheRistretto.TryLockWithContext: return c.LockWithContext(ctx, key)
LocalLockGet(c, p, key) == LocalLockWithContext(c, p, key, "TryLock")

\* LocalCacheRistretto.LockWithContext called directly
LocalLock(c, p, key) == LocalLockWithContext(c, p, key, "Lock")

\* second half: c.cache.SetWithTTL(key, "locked", 1, c.ttl), and the lock
\* is returned as acquired
LocalLockSet(c, p) ==
    LET r == RistSet(loc[c.id], pend[c.id], own[p], Locked, c.ttl)
    IN  /\ c.mode = "local"
        /\ pc[p] \in {"get", "tryget"}
        /\ loc' = [loc EXCEPT ![c.id] = r.st]
        /\ pend' = [pend EXCEPT ![c.id] = r.q]
        /\ pc' = [pc EXCEPT ![p] = "held"]
        /\ lockCtx' = [lockCtx EXCEPT ![p] = TRUE]
        /\ lastOp' = LockResult(LocalLockOp(p), p, own[p], FALSE)
        /\ UNCHANGED <<now, cfg, srv, hist, own, rlock, ctorVars, sd, ret>>

\* wrappedCancel: c.cache.Del(key), then cancel()
LocalLockCancel(c, p) ==
    LET r == RistDel(loc[c.id], pend[c.id], own[p])
    IN  /\ c.mode = "local"
        /\ pc[p] = "held"
        /\ ~RistDelBlocks(pend[c.id], own[p])
        /\ loc' = [loc EXCEPT ![c.id] = r.st]
        /\ pend' = [pend EXCEPT ![c.id] = r.q]
        /\ pc' = [pc EXCEPT ![p] = "idle"]
        /\ own' = [own EXCEPT ![p] = <<>>]
        /\ lockCtx' = [lockCtx EXCEPT ![p] = FALSE]
        /\ lastOp' = LockResult("Unlock", p, own[p], FALSE)
        /\ UNCHANGED <<now, cfg, srv, hist, rlock, ctorVars, sd, ret>>

\* TryLockWithContext handing the locker's error on as it is
TryLockErrorAsIs(e) == e

\* RemoteCacheValkey.TryLockWithContext, the error branch: an error whose
\* text contains "not locked" comes back wrapped in ErrNotLocked, any other
\* error as it is
TryLockError(e) ==
    IF Contains(e.text, LockerErrNotLocked.text) THEN Errorf(ErrNotLocked, e) ELSE e

\* RemoteCacheValkey.TryLockWithContext: c.locker.TryWithContext, which
\* grants a free lock and fails at once on a held one
RemoteTryLock(c, p, key) ==
    /\ c.mode # "local"
    /\ pc[p] = "idle"
    /\ IF rlock[makeKey(c, key)] = 0
       THEN /\ rlock' = [rlock EXCEPT ![makeKey(c, key)] = p]
            /\ pc' = [pc EXCEPT ![p] = "held"]
            /\ own' = [own EXCEPT ![p] = key]
            /\ lockCtx' = [lockCtx EXCEPT ![p] = TRUE]
            /\ lastOp' = LockResult("TryLock", p, key, FALSE)
       ELSE /\ UNCHANGED <<rlock, pc, own, lockCtx>>
            /\ lastOp' = LockError("TryLock", p, key, TryLockError(LockerErrNotLocked))
    /\ UNCHANGED <<now, cfg, srv, loc, pend, hist, ctorVars, sd, ret>>

\* a cancel function that releases the name and leaves the context alone
RemoteLockCancelKeepsContext(c, p) ==
    /\ c.mode # "local"
    /\ pc[p] = "held"
    /\ rlock' = [rlock EXCEPT ![makeKey(c, own[p])] = IF @ = p THEN 0 ELSE @]
    /\ pc' = [pc EXCEPT ![p] = "idle"]
    /\ own' = [own EXCEPT ![p] = <<>>]
    /\ lastOp' = LockResult("Unlock", p, own[p], FALSE)
    /\ UNCHANGED <<now, cfg, srv, loc, pend, hist, ctorVars, sd, ret, lockCtx>>

\* the cancel function the locker returned: the name is released if this
\* caller still has it, and the lock context is cancelled
RemoteLockCancel(c, p) ==
    /\ c.mode # "local"
    /\ pc[p] = "held"
    /\ rlock' = [rlock EXCEPT ![makeKey(c, own[p])] = IF @ = p THEN 0 ELSE @]
    /\ pc' = [pc EXCEPT ![p] = "idle"]
    /\ own' = [own EXCEPT ![p] = <<>>]
    /\ lockCtx' = [lockCtx EXCEPT ![p] = FALSE]
    /\ lastOp' = LockResult("Unlock", p, own[p], FALSE)
    /\ UNCHANGED <<now, cfg, srv, loc, pend, hist, ctorVars, sd, ret>>

\* RemoteCacheValkey.LockWithContext: c.locker.WithContext is entered and
\* the caller waits inside it
RemoteLock(c, p, key) ==
    /\ c.mode # "local"
    /\ pc[p] = "idle"
    /\ pc' = [pc EXCEPT ![p] = "wait"]
    /\ own' = [own EXCEPT ![p] = key]
    /\ lastOp' = NoResult
    /\ UNCHANGED <<now, cfg, srv, loc, pend, hist, rlock, ctorVars, sd, ret, lockCtx>>

\* the waiting call is granted the lock once it is free, and returns
RemoteLockAcquire(c, p) ==
    /\ c.mode # "local"
    /\ pc[p] = "wait"
    /\ rlock[makeKey(c, own[p])] = 0
    /\ rlock' = [rlock EXCEPT ![makeKey(c, own[p])] = p]
    /\ pc' = [pc EXCEPT ![p] = "held"]
    /\ lockCtx' = [lockCtx EXCEPT ![p] = TRUE]
    /\ lastOp' = LockResult("Lock", p, own[p], FALSE)
    /\ UNCHANGED <<now, cfg, srv, loc, pend, hist, own, ctorVars, sd, ret>>

\* the caller's context is cancelled while the call waits: the call returns
\* the context's error
RemoteLockCtxDone(c, p) ==
    /\ c.mode # "local"
    /\ pc[p] = "wait"
    /\ pc' = [pc EXCEPT ![p] = "idle"]
    /\ own' = [own EXCEPT ![p] = <<>>]
    /\ lastOp' = LockError("Lock", p, own[p], ContextCanceled)
    /\ UNCHANGED <<now, cfg, srv, loc, pend, hist, rlock, ctorVars, sd, ret, lockCtx>>

InitLock ==
    /\ cfg \in Configs
    /\ DataIdle /\ LockIdle /\ CtorIdle
    /\ sd = SdIdle

NextLock ==
    \/ \E p \in Callers : LocalLockGet(cfg, p, TheKey)
    \/ \E p \in Callers : LocalLock(cfg, p, TheKey)
    \/ \E p \in Callers : LocalLockSet(cfg, p)
    \/ \E p \in Callers : LocalLockCancel(cfg, p)
    \/ \E p \in Callers : RemoteTryLock(cfg, p, TheKey)
    \/ \E p \in Callers : RemoteLockCancel(cfg, p)
    \/ \E p \in Callers : RemoteLock(cfg, p, TheKey)
    \/ \E p \in Callers : RemoteLockAcquire(cfg, p)
    \/ \E p \in Callers : RemoteLockCtxDone(cfg, p)
    \/ ProcessItems(cfg.id)
    \/ Tick

SpecLock == InitLock /\ [][NextLock]_vars

Holders(key) == {p \in Callers : pc[p] = "held" /\ own[p] = key}

\* C1: the lock of a key has at most one holder at any time, so of two
\* concurrent TryLockWithContext calls on a free key one fails
C1_MutualExclusion ==
    Cardinality(Holders(TheKey)) <= 1

\* the lock of the key is taken: the engine's record of it exists
Taken(c, key) ==
    IF c.mode = "local" THEN loc[c.id][key].has ELSE rlock[makeKey(c, key)] # 0

\* C12: LockWithContext on a contended key waits: it never returns
\* ErrNotLocked merely because another caller holds the key
C12_LockNeverNotLocked ==
    ~(lastOp.op = "Lock" /\ lastOp.err /\ ErrorsIs(lastOp.val, ErrNotLocked))

-----------------------------------------------------------------------------
(* SpecLease: the lock context of the remote engine. The locker keeps a    *)
(* held name alive by extending it every ExtendInterval; the name is lost  *)
(* when the server's record of it runs out before an extension lands.      *)

\* the server's record of the name a caller holds runs out (KeyValidity
\* passed without an extension)
LeaseLost(c, p) ==
    /\ c.mode # "local"
    /\ pc[p] = "held"
    /\ rlock[makeKey(c, own[p])] = p
    /\ rlock' = [rlock EXCEPT ![makeKey(c, own[p])] = 0]
    /\ lastOp' = NoResult
    /\ UNCHANGED <<now, cfg, srv, loc, pend, hist, pc, own, ctorVars, sd, ret, lockCtx>>

\* the locker of a caller whose name is no longer its own cancels the
\* context it returned
LockerCancels(c, p) ==
    /\ c.mode # "local"
    /\ pc[p] = "held"
    /\ lockCtx[p]
    /\ rlock[makeKey(c, own[p])] # p
    /\ lockCtx' = [lockCtx EXCEPT ![p] = FALSE]
    /\ lastOp' = NoResult
    /\ UNCHANGED <<now, cfg, srv, loc, pend, hist, pc, own, rlock, ctorVars, sd, ret>>

InitLease ==
    /\ cfg \in {c \in Configs : c.mode = "remote"}
    /\ DataIdle /\ LockIdle /\ CtorIdle
    /\ sd = SdIdle

NextLease ==
    \/ \E p \in Callers : RemoteTryLock(cfg, p, TheKey)
    \/ \E p \in Callers : RemoteLock(cfg, p, TheKey)
    \/ \E p \in Callers : RemoteLockAcquire(cfg, p)
    \/ \E p \in Callers : RemoteLockCtxDone(cfg, p)
    \/ \E p \in Callers : RemoteLockCancel(cfg, p)
    \/ \E p \in Callers : LeaseLost(cfg, p)
    \/ \E p \in Callers : LockerCancels(cfg, p)

\* the locker's monitoring of a held name keeps running
SpecLease ==
    /\ InitLease /\ [][NextLease]_vars
    /\ \A p \in Callers : WF_vars(LockerCancels(cfg, p))

\* the caller is in possession of a lock context whose name it has lost
Lost(p) == pc[p] = "held" /\ rlock[makeKey(cfg, own[p])] # p

\* the step is the return of the call op by caller p without an error
Returns(p, ops) == lastOp'.op \in ops /\ lastOp'.n = p /\ ~lastOp'.err

\* C14: the context of a successful remote LockWithContext or
\* TryLockWithContext is live when the call returns; it is cancelled only
\* by the holder's release or after the name was lost, by the release at
\* once and after a loss eventually; a release by the holder frees the
\* name, and a TryLockWithContext on a free name succeeds
C14_LockContext ==
    /\ [][\A p \in Callers :
            /\ Returns(p, {"Lock", "TryLock"}) =>
                  lockCtx'[p] /\ rlock'[makeKey(cfg, TheKey)] = p
            /\ (lockCtx[p] /\ ~lockCtx'[p]) => Returns(p, {"Unlock"}) \/ Lost(p)
            /\ Returns(p, {"Unlock"}) =>
                  /\ ~lockCtx'[p]
                  /\ ~Lost(p) => rlock'[makeKey(cfg, TheKey)] = 0
            /\ (lastOp'.op = "TryLock" /\ lastOp'.n = p
                    /\ rlock[makeKey(cfg, TheKey)] = 0) => ~lastOp'.err]_vars
    /\ \A p \in Callers : (Lost(p) /\ lockCtx[p]) ~> ~lockCtx[p]

\* caller 1 lost its name and its context is cancelled, though it has not
\* released; caller 2 has taken the name since and its context is live
C14_LostThenTakenAgain ==
    /\ pc[1] = "held" /\ ~lockCtx[1]
    /\ pc[2] = "held" /\ lockCtx[2]
    /\ rlock[makeKey(cfg, TheKey)] = 2

-----------------------------------------------------------------------------
(* SpecHash: one hash key of a remote cache, its fields, and the clock.    *)

\* TTLs of hash fields, in ticks: a sub-second one, one second, two seconds
HashTTLs == {1, TicksPerSec, 2 * TicksPerSec}

\* values of hash fields
FieldVals == {<<"v">>}

InitHash ==
    /\ cfg \in {c \in Configs : c.mode # "local"}
    /\ DataIdle /\ LockIdle /\ CtorIdle
    /\ sd = SdIdle

NextHash ==
    \/ \E f \in Fields, v \in FieldVals : RemoteHSet(cfg, TheKey, f, v)
    \/ \E f \in Fields, v \in FieldVals, ttl \in HashTTLs :
          RemoteHSetWithTTL(cfg, TheKey, f, v, ttl)
    \/ \E f \in Fields : RemoteHGet(cfg, TheKey, f)
    \/ \E f \in Fields : RemoteHDel(cfg, TheKey, {f})
    \/ Tick

SpecHash == InitHash /\ [][NextHash]_vars

\* the last write of field f that no HDel has undone
LastWrite(f) == hist[TheKey].f[f]

\* C7: without applyTouch, HGet of a field finds the value last written to
\* that field if it was written by HSet, or by HSetWithTTL with a TTL of
\* whole seconds that has not elapsed since, and misses once that TTL has
\* elapsed, whatever was written to the other fields and whenever they
\* expire
C7_FieldsExpireIndependently ==
    (/\ ~cfg.touch
     /\ lastOp.op = "HGet"
     /\ LastWrite(lastOp.fld).w
     /\ LastWrite(lastOp.fld).ttl % TicksPerSec = 0)
    => LET w == LastWrite(lastOp.fld)
       IN  IF w.ttl = 0 \/ now < w.at + w.ttl
           THEN lastOp.found /\ lastOp.val = w.val
           ELSE ~lastOp.found

\* fields a and b written at the same time, a with the shorter TTL; a's TTL
\* has elapsed and a is gone, and HGet of b has just found b
C7_ShortFieldGoneLongFieldHit ==
    LET a == LastWrite(<<"a">>)
        b == LastWrite(<<"b">>)
    IN  /\ ~cfg.touch
        /\ a.w /\ b.w /\ a.at = b.at
        /\ a.ttl > 0 /\ a.ttl < b.ttl
        /\ now >= a.at + a.ttl
        /\ ~srv[makeKey(cfg, TheKey)].val[<<"a">>].has
        /\ lastOp.op = "HGet" /\ lastOp.fld = <<"b">> /\ lastOp.found

-----------------------------------------------------------------------------
(* SpecDel: a cache, local or remote, with several keys: entries are       *)
(* written, and lists of keys are deleted in one call.                     *)

KeyLists == UNION {[1..n -> Keys] : n \in 0..MaxKeys}

InitDel ==
    /\ cfg \in {c \in Configs : c.ttl = 0 /\ ~c.touch}
    /\ DataIdle /\ LockIdle /\ CtorIdle
    /\ sd = SdIdle

NextDel ==
    \/ \E k \in Keys : RemoteSet(cfg, k, <<"a">>)
    \/ \E ks \in KeyLists : RemoteDeleteMulti(cfg, ks)
    \/ \E k \in Keys : LocalSet(cfg, k, <<"a">>)
    \/ \E ks \in KeyLists : LocalDeleteMulti(cfg, ks)
    \/ ProcessItems(cfg.id)

SpecDel == InitDel /\ [][NextDel]_vars

\* the entry the cache holds under key, and whether it holds one
Entry(key) ==
    IF cfg.mode = "local" THEN loc[cfg.id][key] ELSE srv[makeKey(cfg, key)]

Exists(key) ==
    IF cfg.mode = "local" THEN loc[cfg.id][key].has
    ELSE srv[makeKey(cfg, key)].kind # "none"

\* C8: a DeleteMulti call returns no error, leaves none of the listed keys,
\* leaves the entry of every other key as it was, and returns how many of
\* the listed keys existed; with no keys it returns 0 and sends nothing
C8_DeleteMultiCounts ==
    [][lastOp'.op = "DeleteMulti" =>
          LET listed == Range(lastOp'.key)
          IN  /\ ~lastOp'.err
              /\ \A k \in listed : ~Exists(k)'
              /\ \A k \in Keys \ listed : Entry(k)' = Entry(k)
              /\ lastOp'.n = Cardinality({k \in listed : Exists(k)})
              /\ lastOp'.key = <<>> => lastOp'.n = 0 /\ lastOp'.cmds = 0]_vars

\* DeleteMulti of one key that existed and one that did not has returned 1,
\* and a key that was not listed is still there
C8_MixedListDeleted ==
    /\ lastOp.op = "DeleteMulti"
    /\ Len(lastOp.key) = 2 /\ lastOp.key[1] # lastOp.key[2]
    /\ lastOp.n = 1 /\ ~lastOp.err
    /\ cfg.mode # "local"
    /\ \E k \in Keys \ Range(lastOp.key) : Exists(k)

-----------------------------------------------------------------------------
(* SpecCounter: the callers increment one absent key of a remote cache,    *)
(* each once, in any order, while the clock runs and the key is read       *)
(* (without applyTouch: a touching read would put a TTL on the counter).   *)

InitCounter ==
    /\ cfg \in {c \in Configs : c.mode # "local" /\ ~c.touch}
    /\ DataIdle /\ LockIdle /\ CtorIdle
    /\ sd = SdIdle

NextCounter ==
    \/ \E p \in Callers : CallerIncrement(cfg, p, TheKey, 1)
    \/ RemoteGet(cfg, TheKey)
    \/ Tick

SpecCounter == InitCounter /\ [][NextCounter]_vars

Returned == {p \in Callers : pc[p] = "done"}

\* the number the server holds under the key, 0 while the key is absent
Counter(key) ==
    LET e == srv[makeKey(cfg, key)]
    IN  IF e.kind = "str" /\ ParseInt(e.val).ok THEN ParseInt(e.val).n ELSE 0

\* C9: when m of the callers have returned from Increment(k, 1), the
\* counter is m and the m calls returned the m different numbers 1..m; so
\* it is N, and the returns are 1..N, when all N have returned
C9_NoLostIncrement ==
    /\ Counter(TheKey) = Cardinality(Returned)
    /\ {ret[p] : p \in Returned} = 1..Cardinality(Returned)

\* all callers have returned, the first caller's call was served last
C9_AllReturned ==
    /\ Returned = Callers
    /\ Counter(TheKey) = NCallers
    /\ ret[1] = NCallers

-----------------------------------------------------------------------------
(* SpecNs: two caches of one mode with different names, used in turn with  *)
(* the same user key.  cfg is the instance the caller is using; each       *)
(* instance writes a value of its own, and caller i locks through          *)
(* instance i.                                                             *)

InstanceA(mode) == Config(1, mode, <<"n">>, 0, FALSE)
InstanceB(mode) == Config(2, mode, OtherName, 0, FALSE)

Other(c) == IF c.id = 1 THEN InstanceB(c.mode) ELSE InstanceA(c.mode)

OwnVal(c) == IF c.id = 1 THEN <<"a">> ELSE <<"b">>

\* the caller turns to the other instance
Switch ==
    /\ cfg' = Other(cfg)
    /\ lastOp' = NoResult
    /\ UNCHANGED <<now, srv, loc, pend, hist, lockVars, ctorVars, sd>>

InitNs ==
    /\ cfg \in {InstanceA(m) : m \in {"local", "remote"}}
    /\ DataIdle /\ LockIdle /\ CtorIdle
    /\ sd = SdIdle

NextNs ==
    \/ Switch
    \/ RemoteGet(cfg, TheKey)
    \/ RemoteSet(cfg, TheKey, OwnVal(cfg))
    \/ RemoteDelete(cfg, TheKey)
    \/ RemoteDeleteMulti(cfg, <<TheKey>>)
    \/ (srv[makeKey(cfg, TheKey)].kind = "none" /\ RemoteIncrement(cfg, TheKey, 1))
    \/ RemoteTryLock(cfg, cfg.id, TheKey)
    \/ RemoteLockCancel(cfg, cfg.id)
    \/ LocalGet(cfg, TheKey)
    \/ LocalSet(cfg, TheKey, OwnVal(cfg))
    \/ LocalDelete(cfg, TheKey)
    \/ LocalDeleteMulti(cfg, <<TheKey>>)
    \/ LocalLockGet(cfg, cfg.id, TheKey)
    \/ LocalLockSet(cfg, cfg.id)
    \/ LocalLockCancel(cfg, cfg.id)
    \/ ProcessItems(cfg.id)

SpecNs == InitNs /\ [][NextNs]_vars

\* everything instance c keeps under the user key: its entry and its lock
\* on the server, its own ristretto store and setBuf
Holding(c, key) ==
    <<srv[makeKey(c, key)], rlock[makeKey(c, key)], loc[c.id], pend[c.id]>>

\* C11: an operation through one instance leaves what the instance of the
\* other name keeps under the same user key as it was; a Get finds only
\* what the instance itself has stored (its value, its counter, the lock
\* entry of the local engine), a DeleteMulti counts only the
\* instance's own entry, and a lock held through the other instance does
\* not refuse a TryLock
C11_NamespaceIsolation ==
    [][lastOp'.op # "none" =>
          /\ Holding(Other(cfg), TheKey)' = Holding(Other(cfg), TheKey)
          /\ (lastOp'.op = "Get" /\ lastOp'.found) =>
                lastOp'.val \in {OwnVal(cfg), <<"1">>, Locked.v}
          /\ (lastOp'.op = "DeleteMulti" /\ cfg.mode # "local") =>
                lastOp'.n = (IF srv[makeKey(cfg, TheKey)].kind = "none" THEN 0 ELSE 1)
          /\ (lastOp'.op = "TryLock" /\ lastOp'.err) =>
                IF cfg.mode = "local" THEN loc[cfg.id][TheKey].has
                ELSE rlock[makeKey(cfg, TheKey)] # 0]_vars

\* both remote instances hold an entry of their own under the user key and
\* the lock of that key, and a Get through the second finds its own value
C11_BothHoldTheKey ==
    /\ cfg = InstanceB("remote")
    /\ srv[makeKey(InstanceA("remote"), TheKey)].val = <<"a">>
    /\ rlock[makeKey(InstanceA("remote"), TheKey)] = 1
    /\ rlock[makeKey(InstanceB("remote"), TheKey)] = 2
    /\ lastOp.op = "Get" /\ lastOp.found /\ lastOp.val = <<"b">>

-----------------------------------------------------------------------------
(* SpecMix: one key that is written as a string and as a hash in turn, in  *)
(* either engine, while the clock runs.                                    *)

\* the one field of the hash that is written; the other one is only read
TheField == <<"a">>

InitMix ==
    /\ cfg \in Configs
    /\ DataIdle /\ LockIdle /\ CtorIdle
    /\ sd = SdIdle

NextMix ==
    \/ RemoteGet(cfg, TheKey)
    \/ RemoteSet(cfg, TheKey, <<"a">>)
    \/ RemoteDelete(cfg, TheKey)
    \/ RemoteHSet(cfg, TheKey, TheField, <<"v">>)
    \/ \E f \in Fields : RemoteHGet(cfg, TheKey, f)
    \/ RemoteHDel(cfg, TheKey, {TheField})
    \/ RemoteHGetAll(cfg, TheKey)
    \/ LocalGet(cfg, TheKey)
    \/ LocalSet(cfg, TheKey, <<"a">>)
    \/ LocalDelete(cfg, TheKey)
    \/ LocalHSet(cfg, TheKey, TheField, <<"v">>)
    \/ \E f \in Fields : LocalHGet(cfg, TheKey, f)
    \/ LocalHDel(cfg, TheKey, {TheField})
    \/ LocalHGetAll(cfg, TheKey)
    \/ ProcessItems(cfg.id)
    \/ Tick

SpecMix == InitMix /\ [][NextMix]_vars

\* the reply of the server to the command the remote operation o sends
CommandReply(o) ==
    LET ck == makeKey(cfg, o.key)
    IN  CASE o.op = "Get" ->
                IF ~cfg.touch THEN SrvGet(srv, ck) ELSE SrvGetex(srv, ck, Seconds(cfg.ttl))
          [] o.op = "HGet" ->
                IF ~cfg.touch THEN SrvHget(srv, ck, o.fld)
                ELSE SrvHgetex(srv, ck, o.fld, Seconds(cfg.ttl))
          [] o.op = "HGetAll" -> SrvHgetall(srv, ck)
          [] o.op = "HSet" -> SrvHset(srv, ck, o.fld, o.val)
          [] o.op = "HDel" -> SrvHdel(srv, ck, o.fld)
          [] OTHER -> Reply(FALSE, FALSE, <<>>, srv)

\* C15: a remote operation sends its command at most once, and a command
\* the server answers with an error is reported to the caller as an error,
\* by Get and HGet too
C15_FailuresAreErrors ==
    [][(cfg.mode # "local" /\ lastOp'.op # "none") =>
          /\ lastOp'.cmds <= 1
          /\ CommandReply(lastOp').err => lastOp'.err]_vars

\* the result of a read that missed: the zero value, not found, no error
Miss(o, op) == o.op = op /\ ~o.found /\ ~o.err /\ o.val = <<>>

\* the store of the local engine holds something under the key that is no
\* map[string]T
NoHash(c, key) == loc[c.id][key].has /\ ~IsMap(c, loc[c.id][key].val)

\* C16: Get and HGet of a key or field that is absent or has expired
\* return the zero value and false; in the local engine HGet, HGetAll and
\* HDel of a key whose value is no hash, and Get of a key whose value has
\* another type, return a miss or nothing, without a panic, and leave the
\* store as it was
C16_MissIsNoError ==
    [][LET o == lastOp'
           local == cfg.mode = "local"
           e == srv[makeKey(cfg, TheKey)]
           it == loc[cfg.id][TheKey]
       IN  /\ o.op # "panic"
           /\ (o.op = "Get" /\ ~local /\ e.kind = "none") => Miss(o, "Get")
           /\ (o.op = "Get" /\ local /\ ~it.has) => Miss(o, "Get")
           /\ (o.op = "HGet" /\ ~local
                  /\ (e.kind = "none" \/ (e.kind = "hash" /\ ~e.val[o.fld].has)))
                => Miss(o, "HGet")
           /\ (o.op = "HGet" /\ local
                  /\ (~it.has \/ NoHash(cfg, TheKey) \/ ~it.val.v[o.fld].has))
                => Miss(o, "HGet") /\ loc' = loc /\ pend' = pend
           /\ (o.op = "HDel" /\ local /\ NoHash(cfg, TheKey))
                => ~o.err /\ loc' = loc /\ pend' = pend
           /\ (o.op = "HGetAll" /\ local /\ NoHash(cfg, TheKey))
                => /\ ~o.err /\ o.n = 0 /\ o.val = NilMap
                   /\ loc' = loc /\ pend' = pend
           /\ (o.op = "Get" /\ local /\ NoHash(cfg, TheKey) /\ ~IsT(cfg, it.val))
                => Miss(o, "Get") /\ loc' = loc /\ pend' = pend]_vars

\* the local engine holds a string under the key and HDel has just been
\* called on it
C16_HDelOnString ==
    /\ cfg.mode = "local"
    /\ loc[cfg.id][TheKey].has
    /\ loc[cfg.id][TheKey].val = Val(cfg, <<"a">>)
    /\ lastOp.op = "HDel"

-----------------------------------------------------------------------------
(* SpecSeq: one caller makes Increment and Decrement calls on one key, one *)
(* after another, each after the write of the call before has become       *)
(* visible.  ret[1] is the sum of the signed deltas of the calls so far.   *)

\* the element types of the caches under test
CounterTypes == {"int64", "string"}

Deltas == {1, 2}

\* one call of the sequence: op with delta, whose signed delta is d
SeqCall(c, op, key, delta, d) ==
    /\ pend[c.id] = <<>>
    /\ ret[1] + d \in (0 - MaxSum)..MaxSum
    /\ CASE c.mode = "local" -> LocalCounter(c, op, key, d)
          [] op = "Increment" -> Incrby(c, key, delta)
          [] OTHER -> Decrby(c, key, delta)
    /\ ret' = [ret EXCEPT ![1] = @ + d]
    /\ UNCHANGED <<pc, own, rlock, lockCtx>>

InitSeq ==
    /\ cfg \in {[c EXCEPT !.T = t] : c \in Configs, t \in CounterTypes}
    /\ DataIdle /\ LockIdle /\ CtorIdle
    /\ sd = SdIdle

NextSeq ==
    \/ \E delta \in Deltas : SeqCall(cfg, "Increment", TheKey, delta, delta)
    \/ \E delta \in Deltas : SeqCall(cfg, "Decrement", TheKey, delta, 0 - delta)
    \/ ProcessItems(cfg.id)
    \/ Tick

SpecSeq == InitSeq /\ [][NextSeq]_vars

\* C19: every call of the sequence returns, without error and without a
\* panic, the sum of the signed deltas of the calls so far, in the local
\* engine as in the remote one
C19_RunningSum ==
    [][lastOp'.op # "none" =>
          /\ lastOp'.op \in {"Increment", "Decrement"}
          /\ ~lastOp'.err
          /\ lastOp'.n = ret'[1]]_vars


-----------------------------------------------------------------------------
(* Hash writes on one key, each visible before the next call: a call of    *)
(* the local engine waits until the queue of new keys is empty, as the     *)
(* tests do by sleeping. The clock stands still, so no field expires.      *)

\* the field values written: the empty string and a non-empty one
FrameVals == {<<>>, <<"v">>}
FrameTTLs == {1, TicksPerSec}

Visible(c) == pend[c.id] = << >>

InitFrame ==
    /\ cfg \in Configs
    /\ DataIdle /\ LockIdle /\ CtorIdle
    /\ sd = SdIdle

NextFrame ==
    \/ \E f \in Fields, v \in FrameVals : RemoteHSet(cfg, TheKey, f, v)
    \/ \E f \in Fields, v \in FrameVals, t \in FrameTTLs :
          RemoteHSetWithTTL(cfg, TheKey, f, v, t)
    \/ \E fs \in SUBSET Fields : RemoteHDel(cfg, TheKey, fs)
    \/ \E f \in Fields : RemoteHGet(cfg, TheKey, f)
    \/ RemoteHGetAll(cfg, TheKey)
    \/ \E f \in Fields, v \in FrameVals : Visible(cfg) /\ LocalHSet(cfg, TheKey, f, v)
    \/ \E f \in Fields, v \in FrameVals, t \in FrameTTLs :
          Visible(cfg) /\ LocalHSetWithTTL(cfg, TheKey, f, v, t)
    \/ \E fs \in SUBSET Fields : Visible(cfg) /\ LocalHDel(cfg, TheKey, fs)
    \/ \E f \in Fields : Visible(cfg) /\ LocalHGet(cfg, TheKey, f)
    \/ Visible(cfg) /\ LocalHGetAll(cfg, TheKey)
    \/ ProcessItems(cfg.id)

SpecFrame == InitFrame /\ [][NextFrame]_vars

\* the fields of the key that were set and not deleted afterwards, each
\* with the value last written to it
Written(h) == [f \in {x \in Fields : h.f[x].w} |-> h.f[f].val]

\* C20: after any sequence of HSet, HSetWithTTL and HDel on one key, each
\* visible before the next, HGetAll returns exactly the fields that were set
\* and not deleted afterwards, each with its last written value, and HGet
\* of a field agrees with it, in both engines.
C20_HashFrame ==
    [][LET o == lastOp'
           w == Written(hist'[TheKey])
       IN  /\ o.op # "panic"
           /\ o.op = "HGetAll" => ~o.err /\ o.found /\ o.val = w
           /\ o.op = "HGet" =>
                 /\ o.found <=> o.fld \in DOMAIN w
                 /\ o.found => o.val = w[o.fld]]_vars

\* the same for the local engine and for a remote cache that does not touch
\* on reads (HGET instead of HGETEX): it tells the writes' effect from the
\* read's
C20_HashFrameNoTouch ==
    [][LET o == lastOp'
           w == Written(hist'[TheKey])
       IN  (~cfg.touch \/ cfg.mode = "local") =>
           /\ o.op # "panic"
           /\ o.op = "HGetAll" => ~o.err /\ o.found /\ o.val = w
           /\ o.op = "HGet" =>
                 /\ o.found <=> o.fld \in DOMAIN w
                 /\ o.found => o.val = w[o.fld]]_vars


-----------------------------------------------------------------------------
(* Eventual visibility in the local engine.  A write is made when setBuf   *)
(* has room for it, as in the tests, which write a few keys and sleep; a   *)
(* read may come at any time.                                              *)

\* setBuf is empty: processItems has taken every queued write
Settled(c) == pend[c.id] = << >>

InitVis ==
    /\ cfg \in {c \in Configs : c.mode = "local"}
    /\ DataIdle /\ LockIdle /\ CtorIdle
    /\ sd = SdIdle

NextVis ==
    \/ \E v \in Vals : Settled(cfg) /\ LocalSet(cfg, TheKey, v)
    \/ \E v \in Vals, ttl \in TTLs : Settled(cfg) /\ LocalSetWithTTL(cfg, TheKey, v, ttl)
    \/ LocalGet(cfg, TheKey)
    \/ LocalDelete(cfg, TheKey)
    \/ ProcessItems(cfg.id)
    \/ Tick

SpecVis == InitVis /\ [][NextVis]_vars

\* the TTL of the last write of the key has not elapsed
Unexpired(h) == h.ttl = 0 \/ now < h.at + h.ttl

C21_MissBeforeSettle ==
    /\ cfg.mode = "local" /\ lastOp.op = "Get" /\ ~lastOp.found
    /\ hist[TheKey].w /\ Unexpired(hist[TheKey])
    /\ ~Settled(cfg)


-----------------------------------------------------------------------------
(* HTTL: the remaining TTL of a hash field.                                *)

\* what the server answers for a remaining time of rem ticks: seconds, to
\* the nearest one
RoundSecs(rem) == (2 * rem + TicksPerSec) \div (2 * TicksPerSec)

\* HTTL key FIELDS 1 field: -2 without the field (or the key), -1 for a
\* field without expiration, else the seconds left
SrvHttl(s, ck, f) ==
    CASE s[ck].kind = "str" -> Reply(TRUE, FALSE, 0, s)
      [] s[ck].kind = "hash" /\ s[ck].val[f].has ->
            Reply(FALSE, FALSE,
                  IF s[ck].val[f].exp = NoExp THEN 0 - 1
                  ELSE RoundSecs(s[ck].val[f].exp - now), s)
      [] OTHER -> Reply(FALSE, FALSE, 0 - 2, s)

\* RemoteCacheValkey.HTTL: result[0], and -2 with the error when the
\* command fails
RemoteHTTL(c, key, field) ==
    LET r == SrvHttl(srv, makeKey(c, key), field)
    IN  /\ c.mode # "local"
        /\ srv' = r.s
        /\ lastOp' = Result("HTTL", key, field, FALSE, <<>>, r.err,
                            IF r.err THEN 0 - 2 ELSE r.val, 1)
        /\ UNCHANGED <<now, cfg, loc, pend, hist, lockVars, ctorVars, sd>>

\* LocalCacheRistretto.HTTL: -2 when HGet misses, -1 otherwise
LocalHTTL(c, key, field) ==
    LET it == loc[c.id][key]
    IN  /\ c.mode = "local"
        /\ lastOp' = Result("HTTL", key, field, FALSE, <<>>, FALSE,
                            IF it.has /\ IsMap(c, it.val) /\ it.val.v[field].has
                            THEN 0 - 1 ELSE 0 - 2, 0)
        /\ UNCHANGED <<now, cfg, srv, loc, pend, hist, lockVars, ctorVars, sd>>

InitTTL ==
    /\ cfg \in Configs
    /\ DataIdle /\ LockIdle /\ CtorIdle
    /\ sd = SdIdle

NextTTL ==
    \/ RemoteHSet(cfg, TheKey, TheField, <<"v">>)
    \/ \E f \in Fields, t \in HashTTLs : RemoteHSetWithTTL(cfg, TheKey, f, <<"v">>, t)
    \/ RemoteHDel(cfg, TheKey, {TheField})
    \/ \E f \in Fields : RemoteHTTL(cfg, TheKey, f)
    \/ Visible(cfg) /\ LocalHSet(cfg, TheKey, TheField, <<"v">>)
    \/ \E f \in Fields, t \in HashTTLs :
          Visible(cfg) /\ LocalHSetWithTTL(cfg, TheKey, f, <<"v">>, t)
    \/ Visible(cfg) /\ LocalHDel(cfg, TheKey, {TheField})
    \/ \E f \in Fields : LocalHTTL(cfg, TheKey, f)
    \/ ProcessItems(cfg.id)
    \/ Tick

SpecTTL == InitTTL /\ [][NextTTL]_vars

\* the field of the key as the engine holds it: in the server's hash, or in
\* the map the local engine stores, where the entry's deadline is the
\* deadline of each of its fields
FieldOf(c, key, f) ==
    LET e  == srv[makeKey(c, key)]
        it == loc[c.id][key]
    IN  IF c.mode # "local"
        THEN IF e.kind = "hash" THEN e.val[f] ELSE NoField
        ELSE IF it.has /\ IsMap(c, it.val) /\ it.val.v[f].has
             THEN Field(it.val.v[f].val, it.exp) ELSE NoField

\* n is the time left until deadline e, in seconds to the whole second
SecondsLeft(n, e) ==
    /\ n > 0
    /\ n * TicksPerSec - (e - now) < TicksPerSec
    /\ (e - now) - n * TicksPerSec < TicksPerSec

\* C22: HTTL(k, f) returns -2 when field f does not exist, -1 when it exists
\* and has no expiration, otherwise the positive number of seconds left until
\* it expires, and it changes neither the hash nor any expiration.
C22_HTTL ==
    [][lastOp'.op = "HTTL" =>
         LET fl == FieldOf(cfg, TheKey, lastOp'.fld)
         IN  /\ srv' = srv /\ loc' = loc /\ pend' = pend
             /\ ~fl.has => lastOp'.n = 0 - 2
             /\ fl.has /\ fl.exp = NoExp => lastOp'.n = 0 - 1
             /\ fl.has /\ fl.exp # NoExp => SecondsLeft(lastOp'.n, fl.exp)]_vars

\* the same for the remote engine alone
C22_RemoteHTTL ==
    [][lastOp'.op = "HTTL" /\ cfg.mode # "local" =>
         LET fl == FieldOf(cfg, TheKey, lastOp'.fld)
         IN  /\ srv' = srv /\ loc' = loc /\ pend' = pend
             /\ ~fl.has => lastOp'.n = 0 - 2
             /\ fl.has /\ fl.exp = NoExp => lastOp'.n = 0 - 1
             /\ fl.has /\ fl.exp # NoExp => SecondsLeft(lastOp'.n, fl.exp)]_vars


-----------------------------------------------------------------------------
(* Lock calls one after the other: a caller enters LockWithContext only    *)
(* when no other call is inside it and the local engine's queued writes    *)
(* have been applied, so that two holders cannot come from two calls       *)
(* overlapping. Time passes while a holder works.                          *)

NoCallInside == \A q \in Callers : pc[q] \in {"idle", "held"}

\* the callers are alike, so they take their turns by number: a caller asks
\* for the lock while those before it still work under theirs, and of two
\* holders the one with the higher number acquired later
InTurn(p) == \A q \in Callers : q < p => pc[q] = "held"

InitHold ==
    /\ cfg \in Configs
    /\ DataIdle /\ LockIdle /\ CtorIdle
    /\ sd = SdIdle

NextHold ==
    \/ \E p \in Callers :
          InTurn(p) /\ NoCallInside /\ Visible(cfg) /\ LocalLockGet(cfg, p, TheKey)
    \/ \E p \in Callers :
          InTurn(p) /\ NoCallInside /\ Visible(cfg) /\ LocalLock(cfg, p, TheKey)
    \/ \E p \in Callers : LocalLockSet(cfg, p)
    \/ \E p \in Callers : Visible(cfg) /\ LocalLockCancel(cfg, p)
    \/ \E p \in Callers : RemoteTryLock(cfg, p, TheKey)
    \/ \E p \in Callers : RemoteLockCancel(cfg, p)
    \/ ProcessItems(cfg.id)
    \/ Tick

SpecHold == InitHold /\ [][NextHold]_vars

\* the callers whose lock context for the key is neither released nor
\* cancelled
LiveContexts(key) == {p \in Callers : lockCtx[p] /\ own[p] = key}

\* C23: in every reachable state at most one caller holds for a key a lock
\* context that is neither released nor cancelled, also after the lock
\* entry's TTL has run out while the holder is still working.
C23_OneLiveContext ==
    Cardinality(LiveContexts(TheKey)) <= 1

\* the same for caches whose lock entry never expires (DefaultTTL 0) and
\* for the remote engine
C23_OneLiveContextNoTTL ==
    (cfg.mode # "local" \/ cfg.ttl = 0) => Cardinality(LiveContexts(TheKey)) <= 1


\* C24: in the local engine a release function, also when it is called
\* late, after its own lock entry has expired, never frees the lock of the
\* key that a different, later acquirer holds at that time.
C24_ReleaseKeepsLaterLock ==
    [][(/\ cfg.mode = "local" /\ lastOp'.op = "Unlock"
        /\ Taken(cfg, TheKey)
        /\ \E q \in Callers : q > lastOp'.n /\ pc[q] = "held" /\ own[q] = TheKey)
       => Taken(cfg, TheKey)']_vars


-----------------------------------------------------------------------------
(* Data and lock calls of the local engine on the same user key.           *)

InitShare ==
    /\ cfg \in {c \in Configs : c.mode = "local"}
    /\ DataIdle /\ LockIdle /\ CtorIdle
    /\ sd = SdIdle

NextShare ==
    \/ Visible(cfg) /\ LocalGet(cfg, TheKey)
    \/ Visible(cfg) /\ LocalSet(cfg, TheKey, <<"a">>)
    \/ Visible(cfg) /\ LocalDelete(cfg, TheKey)
    \/ \E p \in Callers :
          InTurn(p) /\ NoCallInside /\ Visible(cfg) /\ LocalLockGet(cfg, p, TheKey)
    \/ \E p \in Callers : LocalLockSet(cfg, p)
    \/ \E p \in Callers : Visible(cfg) /\ LocalLockCancel(cfg, p)
    \/ ProcessItems(cfg.id)

SpecShare == InitShare /\ [][NextShare]_vars

\* C25: in the local engine the lock of a key and the data stored at the
\* key are independent: a data write never blocks or releases the lock (the
\* lock is refused only while a caller holds it, and a holder's lock entry
\* stays), and taking or releasing the lock never creates, hides or deletes
\* a data entry (a Get finds exactly what the last Set stored).
C25_LockAndDataApart ==
    /\ (lastOp.op \in {"Lock", "TryLock"} /\ lastOp.err) => Holders(TheKey) # {}
    /\ (lastOp.op = "Get" /\ lastOp.found) =>
           hist[TheKey].w /\ lastOp.val = hist[TheKey].val
    /\ (lastOp.op = "Get" /\ ~lastOp.found) => ~hist[TheKey].w


-----------------------------------------------------------------------------
(* Construction after a failed construction (specification SpecCtor).      *)

\* C26: after a NewCache call has returned a connection error, a later
\* NewCache call for a remote engine with a reachable address returns an
\* engine and no error.
C26_FailureDoesNotPoison ==
    \A i, j \in 1..Len(inst) :
        (/\ i < j
         /\ Done(i) /\ inst[i].err
         /\ Done(j) /\ NewCache(inst[j].mode) = "remote" /\ inst[j].addr = "up")
        => ~inst[j].err /\ inst[j].engine = "remote"


-----------------------------------------------------------------------------
(* Touching reads of the remote engine: a string at one key, a hash at     *)
(* another, written with and without TTL, read with applyTouch.            *)

HashKey == <<"h">>
TouchTTLs == {TicksPerSec, 2 * TicksPerSec}

InitTouch ==
    /\ cfg \in {c \in Configs : c.mode # "local" /\ c.touch}
    /\ DataIdle /\ LockIdle /\ CtorIdle
    /\ sd = SdIdle

NextTouch ==
    \/ RemoteSet(cfg, TheKey, <<"a">>)
    \/ \E t \in TouchTTLs : RemoteSetWithTTL(cfg, TheKey, <<"a">>, t)
    \/ RemoteGet(cfg, TheKey)
    \/ RemoteHSet(cfg, HashKey, TheField, <<"v">>)
    \/ \E t \in TouchTTLs : RemoteHSetWithTTL(cfg, HashKey, TheField, <<"v">>, t)
    \/ RemoteHGet(cfg, HashKey, TheField)
    \/ Tick

SpecTouch == InitTouch /\ [][NextTouch]_vars

\* deadline new is not sooner than deadline old; NoExp is never
NotSooner(old, new) == new = NoExp \/ (old # NoExp /\ new >= old)

\* C27: with applyTouch, after a successful Get or HGet the entry or field
\* read expires no sooner than it would have before the read, whatever the
\* default TTL and the TTL it had.
C27_TouchNeverShortens ==
    [][/\ (lastOp'.op = "Get" /\ lastOp'.found) =>
             NotSooner(srv[makeKey(cfg, TheKey)].exp, srv'[makeKey(cfg, TheKey)].exp)
       /\ (lastOp'.op = "HGet" /\ lastOp'.found) =>
             NotSooner(srv[makeKey(cfg, HashKey)].val[TheField].exp,
                       srv'[makeKey(cfg, HashKey)].val[TheField].exp)]_vars

\* the same for entries and fields whose TTL is not longer than the
\* default TTL
C27_TouchOfShorterTTL ==
    [][/\ (/\ lastOp'.op = "Get" /\ lastOp'.found
           /\ srv[makeKey(cfg, TheKey)].exp # NoExp
           /\ srv[makeKey(cfg, TheKey)].exp <= DeadlineSecs(Seconds(cfg.ttl))) =>
             NotSooner(srv[makeKey(cfg, TheKey)].exp, srv'[makeKey(cfg, TheKey)].exp)
       /\ (/\ lastOp'.op = "HGet" /\ lastOp'.found
           /\ srv[makeKey(cfg, HashKey)].val[TheField].exp # NoExp
           /\ srv[makeKey(cfg, HashKey)].val[TheField].exp <= DeadlineSecs(Seconds(cfg.ttl))) =>
             NotSooner(srv[makeKey(cfg, HashKey)].val[TheField].exp,
                       srv'[makeKey(cfg, HashKey)].val[TheField].exp)]_vars


-----------------------------------------------------------------------------
(* Read-your-write in the remote engine: a string at one key, a hash at    *)
(* another, the empty string among the values; the clock stands still,     *)
(* so nothing expires between a write and the read.                        *)

InitRyw ==
    /\ cfg \in {c \in Configs : c.mode # "local"}
    /\ DataIdle /\ LockIdle /\ CtorIdle
    /\ sd = SdIdle

NextRyw ==
    \/ \E v \in Vals : RemoteSet(cfg, TheKey, v)
    \/ \E v \in Vals, t \in TouchTTLs : RemoteSetWithTTL(cfg, TheKey, v, t)
    \/ RemoteDelete(cfg, TheKey)
    \/ RemoteGet(cfg, TheKey)
    \/ \E f \in Fields, v \in Vals : RemoteHSet(cfg, HashKey, f, v)
    \/ \E f \in Fields : RemoteHDel(cfg, HashKey, {f})
    \/ \E f \in Fields : RemoteHGet(cfg, HashKey, f)

SpecRyw == InitRyw /\ [][NextRyw]_vars

\* the read returned what the last write of the key or field stored
ReadsWrite(o, h) == h.w => o.found /\ o.val = h.val

\* C28: in the remote engine, after Set(k, v) or HSet(k, f, v) returned
\* nil, a Get(k) or HGet(k, f) before expiry and with no write in between
\* returns (v, true), for every value v, the empty string included.
C28_ReadYourWrite ==
    /\ lastOp.op = "Get" => ReadsWrite(lastOp, hist[TheKey])
    /\ lastOp.op = "HGet" => ReadsWrite(lastOp, hist[HashKey].f[lastOp.fld])

\* the same for non-empty values read by a cache that does not touch, or
\* touches with a default TTL of at least a second
C28_ReadNonEmptyWrite ==
    (cfg.touch => Seconds(cfg.ttl) > 0) =>
    /\ (lastOp.op = "Get" /\ hist[TheKey].val # <<>>) =>
           ReadsWrite(lastOp, hist[TheKey])
    /\ (lastOp.op = "HGet" /\ hist[HashKey].f[lastOp.fld].val # <<>>) =>
           ReadsWrite(lastOp, hist[HashKey].f[lastOp.fld])


-----------------------------------------------------------------------------
(* The expiration of a local hash entry (specification SpecTTL).           *)

\* C29: in the local engine HDel and plain HSet on a hash entry that is
\* there leave its expiration as it was, so a hash created by HSetWithTTL
\* still expires ttl after that call.
C29_HashKeepsExpiration ==
    [][(/\ cfg.mode = "local"
        /\ lastOp'.op \in {"HSet", "HDel"}
        /\ loc[cfg.id][TheKey].has /\ IsMap(cfg, loc[cfg.id][TheKey].val))
       => loc'[cfg.id][TheKey].exp = loc[cfg.id][TheKey].exp]_vars

\* the same for HSetWithTTL alone: the entry expires ttl after the call
C29_HSetWithTTLExpiration ==
    [][(/\ cfg.mode = "local"
        /\ lastOp'.op = "HSetWithTTL"
        /\ loc[cfg.id][TheKey].has)
       => loc'[cfg.id][TheKey].exp = now + lastOp'.n]_vars

====
